---- MODULE Spec2Model ----
(***************************************************************************)
(* A model of faucetbot's percentage-of-balance ("normal mode", Junkhead)  *)
(* betting session and of its faucet mode (roll_faucet and the progressive *)
(* pass over the faucet balances): src/src/faucetbot/bot.py, FaucetBot.    *)
(*                                                                         *)
(* Units.  A balance is an integer number of currency units.  A stake is   *)
(* carried in 1/AmountScale of a unit, so that the division by             *)
(* Decimal(100) in _calculate_bet_amount is exact.  Percentages, USD       *)
(* prices and USD thresholds are integers.  The win chances of normal mode *)
(* are carried in tenths of a percent (49.5% is 495), base_win_chance and  *)
(* win_chance_increment of faucet mode in hundredths (0.01% is 1).         *)
(*                                                                         *)
(* Wire values.  A number that arrives in a JSON response is either <<n>>  *)
(* (a well-formed number n) or <<>> (null, or text that is no number);     *)
(* JsonTrue and Signalling are the two values below that the conversions   *)
(* of the code treat differently from both.                                *)
(* An optional value (Optional[int], a dictionary entry that may be        *)
(* missing) is the empty set or a singleton set.                           *)
(***************************************************************************)
EXTENDS Integers, Sequences, FiniteSets, TLC

\* ------------------------------------------------------------------ bounds
\* Largest max_bets_per_session (and max_bets argument, plus one) explored.
MaxBets == 3
\* Largest main balance the collaborator reports.
MaxBalance == 2
\* Last second of the clock of SpecPrice.
MaxTime == 4
\* Most passes of run_continuous explored (and largest max_iterations).
MaxPasses == 3

\* ------------------------------------------------------- program constants
\* Decimal(100), the divisor of _calculate_bet_amount.
AmountScale == 100
\* NormalModeConfig.low_risk_win_chance, 49.5, in tenths of a percent.
LowRiskWinChance == 495
\* NormalModeConfig.high_risk_win_chance, 12.0, in tenths of a percent.
HighRiskWinChance == 120

LOW_RISK == "low_risk"
HIGH_RISK == "high_risk"

\* ------------------------------------------------------------ input domains
\* Main balances the collaborator can report.
Balances == 0..MaxBalance
\* A number on the wire: <<>> is null or malformed text.
Wire(S) == {<<>>} \cup {<<n>> : n \in S}
\* The JSON value true: float(True) is 1.0, Decimal(str(True)) is no number.
JsonTrue == <<1, 1>>
\* Text that Decimal(str(value)) accepts but that arithmetic rejects: "sNaN"
\* (InvalidOperation), or an exponent beyond the context's Emax (Overflow).
Signalling == <<0, 0, 0>>
\* The currencies of the exchange, in the order its balances list has them.
PassCurrencies == <<"btc", "eth", "ltc">>
Currencies == { PassCurrencies[i] : i \in 1..Len(PassCurrencies) }
\* Profit deltas the collaborator reports.
Profits == {0 - 1, 1}
\* USD prices the price source can answer (0: no "usd" key in the answer).
Prices == {0, 2}
BetPercents == {0 - 5, 0, 5, 50}
Frequencies == {0, 1, 2}
BaseWinChances == {1, 10}
WinChanceIncrements == {0 - 1, 0, 1}
CashoutMins == {0, 2, 4}
StopLossPercents == {50, 100, 150}
TakeProfitPercents == {50, 100}

Some(S) == CHOOSE x \in S : TRUE
Min(a, b) == IF a <= b THEN a ELSE b

VARIABLES
    config,            \* BotConfig (with its NormalModeConfig), fixed at construction
    max_bets,          \* the max_bets argument of run_normal_mode_session: {} is None
    price_cache,       \* FaucetBot._price_cache: per currency {} or {price}
    pc,                \* position in run_normal_mode_session, in the pass over the
                       \* faucet balances, or in a direct call of roll_normal_mode,
                       \* roll_faucet or _should_stop_session
    session,           \* NormalModeSession
    should_stop,       \* what the last call of _should_stop_session returned: {} or
                       \* {<<should_stop, reason>>}
    min_bet,           \* the local min_bet of the loop body: {} before it is computed
    request,           \* the arguments of the play_dice call in flight (or the last one)
    response,          \* the response of the last play_dice call that returned
    result,            \* the RollResult the wager is building (or returned last)
    results,           \* the list run_normal_mode_session (or the pass) returns: a
                       \* projection of each RollResult
    withdraw_request,  \* the api.withdraw calls of the last wager
    log_reason,        \* the message logged when the session loop ended
    sum_deltas,        \* the sum of the profit deltas the collaborator reported
    cashout_request,   \* the api.faucet_cashout calls of the last wager
    failed,            \* the collaborator calls of the last wager that raised, among
                       \* "cashout", "user_info" and "withdraw"
    main_usd,          \* the USD value of the main balance the exchange reports
                       \* after the cashout of the last wager: {} when there was no
                       \* successful cashout, or get_user_info fails or has no entry
                       \* for the currency
    faucet_currencies, \* the list get_faucet_currencies returned to the pass
    position,          \* how many entries of faucet_currencies the pass has taken
    faucet_index,      \* the local faucet_index of the pass
    bets,              \* the play_dice calls of the pass, in order
    now,               \* time.time(), in seconds
    price_cache_time,  \* FaucetBot._price_cache_time: per currency {} or {time}
    price_call,        \* the last call of _get_usd_price that SpecPrice made
    iteration,         \* the local iteration of run_continuous
    stop_on_cashout,   \* the stop_on_cashout argument of run_continuous
    max_iterations,    \* the max_iterations argument of run_continuous: {} is None
    request_delay,     \* DuckDiceConfig.request_delay_ms / 1000.0, in seconds
    last_request_time, \* DuckDiceAPI._last_request_time
    starts,            \* the last two requests of the API client: when
                       \* _make_request was called, when the request started
                       \* and whether it failed
    main_balance       \* what _get_main_balance returned to
                       \* run_normal_mode_session: {} before, {balance} after

\* What the pass owns, and what a wager's side effects leave behind.
pass_vars == <<faucet_currencies, position, faucet_index, bets>>
side_vars == <<cashout_request, failed, main_usd>>
clock_vars == <<now, price_cache_time, price_call>>
loop_vars == <<iteration, stop_on_cashout, max_iterations>>
api_vars == <<request_delay, last_request_time, starts>>
fetch_vars == <<main_balance>>

vars == <<config, max_bets, price_cache, pc, session, should_stop, min_bet, request,
          response, result, results, withdraw_request, log_reason, sum_deltas,
          cashout_request, failed, main_usd, faucet_currencies, position,
          faucet_index, bets, now, price_cache_time, price_call, iteration,
          stop_on_cashout, max_iterations, request_delay, last_request_time, starts,
          main_balance>>

\* ---------------------------------------------------------------- dataclasses
NormalModeConfigs ==
    [ low_risk_win_chance : {LowRiskWinChance},
      low_risk_bet_percent : BetPercents,
      high_risk_win_chance : {HighRiskWinChance},
      high_risk_bet_percent : {1, 50},
      high_risk_frequency : Frequencies,
      alternate_direction : BOOLEAN,
      max_bets_per_session : 1..MaxBets,
      stop_loss_percent : StopLossPercents,
      take_profit_percent : TakeProfitPercents ]

BotConfigs ==
    [ base_win_chance : BaseWinChances,
      win_chance_increment : WinChanceIncrements,
      bet_high : BOOLEAN,
      normal_mode : NormalModeConfigs,
      cashout_min_usd : CashoutMins,
      auto_withdraw : BOOLEAN,
      withdrawal_address : {"", "addr"},
      withdrawal_min_usd : {4},
      price_refresh_sec : {2} ]

\* The max_bets arguments explored: None, 0 and 1..MaxBets + 1.
MaxBetsArgs == {{}} \cup {{n} : n \in 0..(MaxBets + 1)}

\* The configuration the exploration varies: the defaults of the dataclasses
\* where the model's scale allows (a high-risk bet every 2nd bet instead of
\* every 5th, 2 bets per session instead of 50).
DefaultConfig ==
    [ base_win_chance |-> 1,
      win_chance_increment |-> 1,
      bet_high |-> TRUE,
      normal_mode |->
          [ low_risk_win_chance |-> LowRiskWinChance,
            low_risk_bet_percent |-> 5,
            high_risk_win_chance |-> HighRiskWinChance,
            high_risk_bet_percent |-> 1,
            high_risk_frequency |-> 2,
            alternate_direction |-> TRUE,
            max_bets_per_session |-> 2,
            stop_loss_percent |-> 50,
            take_profit_percent |-> 50 ],
      cashout_min_usd |-> 4,
      auto_withdraw |-> FALSE,
      withdrawal_address |-> "",
      withdrawal_min_usd |-> 4,
      price_refresh_sec |-> 2 ]

\* The settings fall into groups that act together: the direction (bet_high,
\* alternate_direction), the stake (the two bet percentages and the high-risk
\* frequency), the limits (max_bets_per_session and the max_bets argument),
\* the thresholds (stop-loss, take-profit), the withdrawal (auto_withdraw,
\* withdrawal_address), the progression (base_win_chance,
\* win_chance_increment) and the cashout (cashout_min_usd).  Groups(c, m) is
\* the set of groups in which a run differs from DefaultConfig and
\* max_bets = None.
Groups(c, m) ==
    LET n == c.normal_mode
        d == DefaultConfig.normal_mode
    IN  (IF <<c.bet_high, n.alternate_direction>>
                # <<DefaultConfig.bet_high, d.alternate_direction>>
         THEN {"direction"} ELSE {})
        \cup
        (IF <<n.low_risk_bet_percent, n.high_risk_bet_percent, n.high_risk_frequency>>
                # <<d.low_risk_bet_percent, d.high_risk_bet_percent, d.high_risk_frequency>>
         THEN {"stake"} ELSE {})
        \cup
        (IF <<n.max_bets_per_session, m>> # <<d.max_bets_per_session, {}>>
         THEN {"limits"} ELSE {})
        \cup
        (IF <<n.stop_loss_percent, n.take_profit_percent>>
                # <<d.stop_loss_percent, d.take_profit_percent>>
         THEN {"thresholds"} ELSE {})
        \cup
        (IF <<c.auto_withdraw, c.withdrawal_address>>
                # <<DefaultConfig.auto_withdraw, DefaultConfig.withdrawal_address>>
         THEN {"withdrawal"} ELSE {})
        \cup
        (IF <<c.base_win_chance, c.win_chance_increment>>
                # <<DefaultConfig.base_win_chance, DefaultConfig.win_chance_increment>>
         THEN {"progression"} ELSE {})
        \cup
        (IF c.cashout_min_usd # DefaultConfig.cashout_min_usd
         THEN {"cashout"} ELSE {})

\* The runs explored: every configuration and max_bets argument that differs
\* from the default in at most one group of settings.
Setups == { cm \in BotConfigs \X MaxBetsArgs : Cardinality(Groups(cm[1], cm[2])) <= 1 }

\* The runs of faucet mode explored: those of Setups in which the settings of
\* normal mode and the max_bets argument, which faucet mode does not read, are
\* the defaults.
FaucetSetups ==
    { cm \in Setups : cm[1].normal_mode = DefaultConfig.normal_mode /\ cm[2] = {} }

\* NormalModeSession(initial_balance=b, current_balance=b): the other fields
\* take the dataclass defaults.
NormalModeSession(initial_balance, current_balance) ==
    [ initial_balance |-> initial_balance,
      current_balance |-> current_balance,
      bet_count |-> 0,
      win_count |-> 0,
      loss_count |-> 0,
      total_profit |-> 0,
      last_direction_high |-> TRUE,
      consecutive_losses |-> 0,
      consecutive_wins |-> 0 ]

\* RollResult as roll_normal_mode constructs it before the bet is placed.
RollResult(bet_amount, win_chance, bet_high, strategy) ==
    [ currency |-> "btc",
      bet_amount |-> bet_amount,
      win |-> FALSE,
      profit |-> <<0>>,
      new_faucet_balance |-> <<0>>,
      new_main_balance |-> <<0>>,
      roll_number |-> 0,
      win_chance |-> win_chance,
      bet_high |-> bet_high,
      strategy |-> strategy,
      cashout_triggered |-> FALSE,
      cashout_success |-> FALSE,
      withdrawal_triggered |-> FALSE,
      withdrawal_success |-> FALSE,
      usd_value |-> 0 ]

\* RollResult as roll_faucet constructs it before the bet is placed: bet_high
\* and strategy are not passed and keep the defaults of the dataclass (True,
\* None).
FaucetRollResult(currency, amount, win_chance) ==
    [ RollResult(amount, win_chance, TRUE, "") EXCEPT !.currency = currency ]

\* What results keeps of a RollResult that roll_faucet returned to the pass.
ReturnedFaucet(r) ==
    [ currency |-> r.currency,
      win_chance |-> r.win_chance,
      cashout_success |-> r.cashout_success ]

\* What results keeps of a returned RollResult.
Returned(r) ==
    [ strategy |-> r.strategy,
      bet_high |-> r.bet_high,
      withdrawal_triggered |-> r.withdrawal_triggered,
      withdrawal_success |-> r.withdrawal_success ]

\* No play_dice call, response or RollResult yet.
NoRequest == [ symbol |-> "", amount |-> 0, chance |-> 0, is_high |-> TRUE, faucet |-> TRUE ]
NoResponse == [ result |-> FALSE, profit |-> <<>>, balances |-> {} ]
NoResult == [ RollResult(0, 0, TRUE, "") EXCEPT !.currency = "" ]
\* price_call before any call: no symbol.
NoPriceCall ==
    [ symbol |-> "", at |-> 0, before |-> {}, before_time |-> {},
      contacted |-> 0, fetched |-> {}, returned |-> 0 ]

\* ------------------------------------------------------------ pure helpers
\* _to_decimal: Decimal(str(value)), and Decimal(0) for None or malformed text
\* (str(True) among it).
_to_decimal(value) == IF Len(value) # 1 THEN 0 ELSE value[1]

\* Mutant of _get_usd_price: a failed refresh forgets the cached price.
GetUsdPriceFailsToZero(cache, fresh, fetched) ==
    IF cache # {} /\ fresh THEN <<Some(cache), cache>>
    ELSE IF fetched # {} /\ Some(fetched) > 0 THEN <<Some(fetched), fetched>>
    ELSE <<0, cache>>

\* Mutant of _get_usd_price: a quote of 0 is cached like a price.
GetUsdPriceStoresZero(cache, fresh, fetched) ==
    IF cache # {} /\ fresh THEN <<Some(cache), cache>>
    ELSE IF fetched # {} THEN <<Some(fetched), fetched>>
    ELSE IF cache # {} THEN <<Some(cache), cache>>
    ELSE <<0, cache>>

\* _get_usd_price, as a function of the cache, of whether the cached entry is
\* still fresh (now - cache_time < price_refresh_sec) and of what the price
\* source answers (fetched: {} when the request fails, {p} for a price p).
\* The pair is <<the price returned, the cache afterwards>>.
_get_usd_price(cache, fresh, fetched) ==
    IF cache # {} /\ fresh THEN <<Some(cache), cache>>
    ELSE IF fetched # {} /\ Some(fetched) > 0 THEN <<Some(fetched), fetched>>
    ELSE IF cache # {} THEN <<Some(cache), cache>>
    ELSE <<0, cache>>

\* Every <<price, cache afterwards>> one call of _get_usd_price can produce:
\* the time since the entry was cached and the answer of the price source
\* (an error, no "usd" key, a price) are the environment's.
PriceLookups(cache) ==
    { _get_usd_price(cache, fresh, fetched) :
          fresh \in BOOLEAN, fetched \in {{}} \cup {{p} : p \in Prices} }

\* _calculate_usd_value: float(amount) * price.
_calculate_usd_value(amount, price) == amount * price

\* Mutant of _calculate_bet_amount: the stake is cut to whole units.
CalculateBetAmountWholeUnits(balance, percent) ==
    IF balance <= 0 \/ percent <= 0 THEN 0
    ELSE ((balance * percent) \div 100) * AmountScale

\* _calculate_bet_amount: (balance * Decimal(str(percent))) / Decimal(100),
\* in 1/AmountScale of a unit.
_calculate_bet_amount(balance, percent) ==
    IF balance <= 0 \/ percent <= 0 THEN 0
    ELSE (balance * AmountScale * percent) \div 100

\* Mutant of _determine_strategy: the index is taken one bet late (the bet
\* count before the increment is tested instead of bet_count + 1).
DetermineStrategyOffByOne(bet_count) ==
    IF /\ config.normal_mode.high_risk_frequency > 0
       /\ bet_count - 1 > 0
       /\ (bet_count - 1) % config.normal_mode.high_risk_frequency = 0
    THEN HIGH_RISK
    ELSE LOW_RISK

_determine_strategy(bet_count) ==
    IF /\ config.normal_mode.high_risk_frequency > 0
       /\ bet_count > 0
       /\ bet_count % config.normal_mode.high_risk_frequency = 0
    THEN HIGH_RISK
    ELSE LOW_RISK

\* Mutant of _get_bet_direction: when alternating, the direction follows
\* whether the session is in profit.
GetBetDirectionByProfit(s) ==
    IF config.normal_mode.alternate_direction
    THEN s.current_balance >= s.initial_balance
    ELSE config.bet_high

_get_bet_direction(s) ==
    IF config.normal_mode.alternate_direction
    THEN ~s.last_direction_high
    ELSE config.bet_high

\* Mutant of _should_stop_session: the bet count is not tested.
ShouldStopWithoutMaxBets(s) ==
    IF /\ s.initial_balance > 0
       /\ (s.initial_balance - s.current_balance) * 100
              >= config.normal_mode.stop_loss_percent * s.initial_balance
    THEN <<TRUE, "Stop-loss triggered">>
    ELSE IF /\ s.initial_balance > 0
            /\ (s.current_balance - s.initial_balance) * 100
                   >= config.normal_mode.take_profit_percent * s.initial_balance
    THEN <<TRUE, "Take-profit triggered">>
    ELSE <<FALSE, "">>

\* Mutant of _should_stop_session: the stop-loss comparison is strict.
ShouldStopStrictStopLoss(s) ==
    IF s.bet_count >= config.normal_mode.max_bets_per_session
    THEN <<TRUE, "Max bets reached">>
    ELSE IF /\ s.initial_balance > 0
            /\ (s.initial_balance - s.current_balance) * 100
                   > config.normal_mode.stop_loss_percent * s.initial_balance
    THEN <<TRUE, "Stop-loss triggered">>
    ELSE IF /\ s.initial_balance > 0
            /\ (s.current_balance - s.initial_balance) * 100
                   >= config.normal_mode.take_profit_percent * s.initial_balance
    THEN <<TRUE, "Take-profit triggered">>
    ELSE <<FALSE, "">>

\* Mutant of _should_stop_session: the take-profit check is missing.
ShouldStopNoTakeProfit(s) ==
    IF s.bet_count >= config.normal_mode.max_bets_per_session
    THEN <<TRUE, "Max bets reached">>
    ELSE IF /\ s.initial_balance > 0
            /\ (s.initial_balance - s.current_balance) * 100
                   >= config.normal_mode.stop_loss_percent * s.initial_balance
    THEN <<TRUE, "Stop-loss triggered">>
    ELSE <<FALSE, "">>

\* Mutant of _should_stop_session: the bet count is compared with > .
ShouldStopOneBetLate(s) ==
    IF s.bet_count > config.normal_mode.max_bets_per_session
    THEN <<TRUE, "Max bets reached">>
    ELSE IF /\ s.initial_balance > 0
            /\ (s.initial_balance - s.current_balance) * 100
                   >= config.normal_mode.stop_loss_percent * s.initial_balance
    THEN <<TRUE, "Stop-loss triggered">>
    ELSE IF /\ s.initial_balance > 0
            /\ (s.current_balance - s.initial_balance) * 100
                   >= config.normal_mode.take_profit_percent * s.initial_balance
    THEN <<TRUE, "Take-profit triggered">>
    ELSE <<FALSE, "">>

\* _should_stop_session: <<should_stop, reason>>.  The two percentages are
\* compared after multiplying out the (positive) initial balance.
_should_stop_session(s) ==
    IF s.bet_count >= config.normal_mode.max_bets_per_session
    THEN <<TRUE, "Max bets reached">>
    ELSE IF /\ s.initial_balance > 0
            /\ (s.initial_balance - s.current_balance) * 100
                   >= config.normal_mode.stop_loss_percent * s.initial_balance
    THEN <<TRUE, "Stop-loss triggered">>
    ELSE IF /\ s.initial_balance > 0
            /\ (s.current_balance - s.initial_balance) * 100
                   >= config.normal_mode.take_profit_percent * s.initial_balance
    THEN <<TRUE, "Take-profit triggered">>
    ELSE <<FALSE, "">>

\* max_bets_limit = max_bets if max_bets else config.normal_mode.max_bets_per_session
max_bets_limit ==
    IF max_bets # {} /\ Some(max_bets) # 0
    THEN Some(max_bets)
    ELSE config.normal_mode.max_bets_per_session

\* Mutant of UpdateSession: a win does not reset the losing streak.
UpdateSessionKeepsLosingStreak(s, is_high, win, profit, new_main_balance) ==
    [ s EXCEPT
        !.bet_count = @ + 1,
        !.last_direction_high = is_high,
        !.total_profit = @ + _to_decimal(profit),
        !.current_balance = _to_decimal(new_main_balance),
        !.win_count = IF win THEN @ + 1 ELSE @,
        !.loss_count = IF win THEN @ ELSE @ + 1,
        !.consecutive_wins = IF win THEN @ + 1 ELSE 0,
        !.consecutive_losses = IF win THEN @ ELSE @ + 1 ]

\* Mutant of UpdateSession: the balance is the previous one plus the delta.
UpdateSessionAddsDelta(s, is_high, win, profit, new_main_balance) ==
    [ s EXCEPT
        !.bet_count = @ + 1,
        !.last_direction_high = is_high,
        !.total_profit = @ + _to_decimal(profit),
        !.current_balance = @ + _to_decimal(profit),
        !.win_count = IF win THEN @ + 1 ELSE @,
        !.loss_count = IF win THEN @ ELSE @ + 1,
        !.consecutive_wins = IF win THEN @ + 1 ELSE 0,
        !.consecutive_losses = IF win THEN 0 ELSE @ + 1 ]

\* Mutant of UpdateSession: the profit is the change of the balance since the
\* session began.
UpdateSessionProfitFromBalance(s, is_high, win, profit, new_main_balance) ==
    [ s EXCEPT
        !.bet_count = @ + 1,
        !.last_direction_high = is_high,
        !.total_profit = _to_decimal(new_main_balance) - s.initial_balance,
        !.current_balance = _to_decimal(new_main_balance),
        !.win_count = IF win THEN @ + 1 ELSE @,
        !.loss_count = IF win THEN @ ELSE @ + 1,
        !.consecutive_wins = IF win THEN @ + 1 ELSE 0,
        !.consecutive_losses = IF win THEN 0 ELSE @ + 1 ]

\* Mutant of UpdateSession: the direction used is not persisted.
UpdateSessionKeepsDirection(s, is_high, win, profit, new_main_balance) ==
    [ s EXCEPT
        !.bet_count = @ + 1,
        !.total_profit = @ + _to_decimal(profit),
        !.current_balance = _to_decimal(new_main_balance),
        !.win_count = IF win THEN @ + 1 ELSE @,
        !.loss_count = IF win THEN @ ELSE @ + 1,
        !.consecutive_wins = IF win THEN @ + 1 ELSE 0,
        !.consecutive_losses = IF win THEN 0 ELSE @ + 1 ]

\* The session update of roll_normal_mode, from the parsed response.
UpdateSession(s, is_high, win, profit, new_main_balance) ==
    [ s EXCEPT
        !.bet_count = @ + 1,
        !.last_direction_high = is_high,
        !.total_profit = @ + _to_decimal(profit),
        !.current_balance = _to_decimal(new_main_balance),
        !.win_count = IF win THEN @ + 1 ELSE @,
        !.loss_count = IF win THEN @ ELSE @ + 1,
        !.consecutive_wins = IF win THEN @ + 1 ELSE 0,
        !.consecutive_losses = IF win THEN 0 ELSE @ + 1 ]

\* Mutant of ShouldCashout: the threshold itself does not trigger.
ShouldCashoutStrict(usd_value) == usd_value > config.cashout_min_usd

\* The cashout test of roll_faucet: result.usd_value >= cashout_min_usd.
ShouldCashout(usd_value) == usd_value >= config.cashout_min_usd

\* Mutant of ShouldWithdraw: the withdrawal address is not looked at.
ShouldWithdrawAnywhere(cashed, found, main_value) ==
    /\ cashed
    /\ config.auto_withdraw
    /\ found
    /\ main_value >= config.withdrawal_min_usd

\* The withdrawal test of roll_faucet: inside the try of a cashout that
\* succeeded (cashed), with auto_withdraw and a withdrawal address, when the
\* balances that get_user_info returned have an entry for the currency (found)
\* whose main balance is worth main_value >= withdrawal_min_usd.
ShouldWithdraw(cashed, found, main_value) ==
    /\ cashed
    /\ config.auto_withdraw
    /\ config.withdrawal_address # ""
    /\ found
    /\ main_value >= config.withdrawal_min_usd

\* Mutant of FaucetResult: a cashout or withdrawal that failed is not recorded
\* as triggered.
FaucetResultSuccessOnly(r, resp, usd_value, cashes, cashout_ok, withdraws, withdraw_ok) ==
    [ r EXCEPT
        !.win = resp.result,
        !.profit = resp.profit,
        !.roll_number = 0,
        !.new_faucet_balance =
            IF resp.balances = {} THEN <<0>> ELSE Some(resp.balances).faucet,
        !.new_main_balance =
            IF resp.balances = {} THEN <<0>> ELSE Some(resp.balances).main,
        !.usd_value = usd_value,
        !.cashout_triggered = cashes /\ cashout_ok,
        !.cashout_success = cashes /\ cashout_ok,
        !.withdrawal_triggered = withdraws /\ withdraw_ok,
        !.withdrawal_success = withdraws /\ withdraw_ok ]

\* Mutant of FaucetResult: the triggered flags are taken back once the
\* cashout or the withdrawal has succeeded.
FaucetResultClearsTrigger(r, resp, usd_value, cashes, cashout_ok, withdraws, withdraw_ok) ==
    [ r EXCEPT
        !.win = resp.result,
        !.profit = resp.profit,
        !.roll_number = 0,
        !.new_faucet_balance =
            IF resp.balances = {} THEN <<0>> ELSE Some(resp.balances).faucet,
        !.new_main_balance =
            IF resp.balances = {} THEN <<0>> ELSE Some(resp.balances).main,
        !.usd_value = usd_value,
        !.cashout_triggered = cashes /\ ~cashout_ok,
        !.cashout_success = cashes /\ cashout_ok,
        !.withdrawal_triggered = withdraws /\ ~withdraw_ok,
        !.withdrawal_success = withdraws /\ withdraw_ok ]

\* The RollResult roll_faucet returns: r with the fields of the response resp,
\* the valuation of the new faucet balance, and the flags of the cashout
\* (triggered: cashes, succeeded: cashout_ok) and of the withdrawal.
FaucetResult(r, resp, usd_value, cashes, cashout_ok, withdraws, withdraw_ok) ==
    [ r EXCEPT
        !.win = resp.result,
        !.profit = resp.profit,
        !.roll_number = 0,
        !.new_faucet_balance =
            IF resp.balances = {} THEN <<0>> ELSE Some(resp.balances).faucet,
        !.new_main_balance =
            IF resp.balances = {} THEN <<0>> ELSE Some(resp.balances).main,
        !.usd_value = usd_value,
        !.cashout_triggered = cashes,
        !.cashout_success = cashes /\ cashout_ok,
        !.withdrawal_triggered = withdraws,
        !.withdrawal_success = withdraws /\ withdraw_ok ]

\* What api.get_user_info answers after a cashout: <<>> when it raises, else
\* <<b>> with b the entry of the currency in its balances ({} when there is
\* none).
UserInfos ==
    {<<>>} \cup { <<b>> : b \in {{}} \cup {{[main |-> m]} : m \in Wire(Balances)} }

\* The faucet values of the exchange's balances list.
FaucetWires == Wire(Balances) \cup {JsonTrue}

\* float(faucet) > 0 in api.get_faucet_balances, False also when faucet is
\* None or float() raises.
FloatIsPositive(value) ==
    IF value = <<>> THEN FALSE
    ELSE IF value = JsonTrue THEN TRUE
    ELSE value[1] > 0

HasFaucetBalance(bal) == FloatIsPositive(bal.faucet)

\* api.get_faucet_balances: the entries of the balances list whose faucet
\* balance is a positive float.
get_faucet_balances(balances) == SelectSeq(balances, HasFaucetBalance)

\* The list get_faucet_currencies builds from those entries: the currency and
\* str(_to_decimal(faucet)) of each.
get_faucet_currencies(balances) ==
    LET kept == get_faucet_balances(balances)
    IN  [ i \in 1..Len(kept) |->
            [ currency |-> kept[i].currency,
              faucet_balance |-> <<_to_decimal(kept[i].faucet)>> ] ]

\* The win chance of the pass for faucet_index = index.
ProgressiveWinChance(index) ==
    config.base_win_chance + (index - 1) * config.win_chance_increment

\* Mutant of NextFaucetIndex: a skipped currency is counted too.
NextFaucetIndexCountsAll(index, amount) == index + 1

\* faucet_index after the pass took an entry with faucet balance amount: the
\* entry is skipped, and not counted, when _to_decimal(amount) <= 0.
NextFaucetIndex(index, amount) ==
    IF _to_decimal(amount) <= 0 THEN index ELSE index + 1

\* The session as roll_normal_mode leaves it when session.total_profit +=
\* profit_decimal raises: bet_count and last_direction_high are assigned
\* (lines 617-618), the fields after line 620 are not reached.
UpdateSessionInterrupted(s, is_high) ==
    [ s EXCEPT
        !.bet_count = @ + 1,
        !.last_direction_high = is_high ]

\* ------------------------------------------------------------------- Init
\* A FaucetBot is constructed and run_normal_mode_session is called.
Init ==
    /\ \E cm \in Setups : config = cm[1] /\ max_bets = cm[2]
    /\ price_cache = [c \in Currencies |-> {}]
    /\ pc = "start"
    /\ session = NormalModeSession(0, 0)
    /\ should_stop = {}
    /\ min_bet = {}
    /\ request = NoRequest
    /\ response = NoResponse
    /\ result = NoResult
    /\ results = <<>>
    /\ withdraw_request = <<>>
    /\ log_reason = ""
    /\ sum_deltas = 0
    /\ cashout_request = <<>>
    /\ failed = {}
    /\ main_usd = {}
    /\ faucet_currencies = <<>>
    /\ position = 0
    /\ faucet_index = 0
    /\ bets = <<>>
    /\ now = 0
    /\ price_cache_time = [c \in Currencies |-> {}]
    /\ price_call = NoPriceCall
    /\ iteration = 0
    /\ stop_on_cashout = FALSE
    /\ max_iterations = {}
    /\ request_delay = 1
    /\ last_request_time = 0
    /\ starts = <<>>
    /\ main_balance = {}

\* ---------------------------------------------------------------- actions
\* Mutant of StartSession: a session is started on a main balance of 0.
StartSessionWithoutBalance ==
    /\ pc = "start"
    /\ \E main \in {{}} \cup {{w} : w \in Wire(Balances)},
          priced \in PriceLookups(price_cache["btc"]) :
        LET initial_balance == IF main = {} THEN 0 ELSE _to_decimal(Some(main))
        IN  /\ main_balance' = {initial_balance}
            /\ IF initial_balance < 0
               THEN /\ pc' = "done"
                    /\ log_reason' = "No main balance found"
                    /\ UNCHANGED <<session, price_cache>>
               ELSE /\ pc' = "loop"
                    /\ session' = NormalModeSession(initial_balance, initial_balance)
                    /\ price_cache' = [price_cache EXCEPT !["btc"] = priced[2]]
                    /\ UNCHANGED log_reason
    /\ UNCHANGED clock_vars
    /\ UNCHANGED loop_vars
    /\ UNCHANGED api_vars
    /\ UNCHANGED <<config, max_bets, should_stop, min_bet, request, response, result,
                   results, withdraw_request, sum_deltas, side_vars, pass_vars>>

\* run_normal_mode_session up to the loop: _get_main_balance returns the main
\* balance of the currency's entry (Decimal(0) when there is no entry), the
\* session is created, and the price of the currency is looked up once.
StartSession ==
    /\ pc = "start"
    /\ \E main \in {{}} \cup {{w} : w \in Wire(Balances)},
          priced \in PriceLookups(price_cache["btc"]) :
        LET initial_balance == IF main = {} THEN 0 ELSE _to_decimal(Some(main))
        IN  /\ main_balance' = {initial_balance}
            /\ IF initial_balance <= 0
               THEN /\ pc' = "done"
                    /\ log_reason' = "No main balance found"
                    /\ UNCHANGED <<session, price_cache>>
               ELSE /\ pc' = "loop"
                    /\ session' = NormalModeSession(initial_balance, initial_balance)
                    /\ price_cache' = [price_cache EXCEPT !["btc"] = priced[2]]
                    /\ UNCHANGED log_reason
    /\ UNCHANGED clock_vars
    /\ UNCHANGED loop_vars
    /\ UNCHANGED api_vars
    /\ UNCHANGED <<config, max_bets, should_stop, min_bet, request, response, result,
                   results, withdraw_request, sum_deltas, side_vars, pass_vars>>

\* api.get_user_info raises in _get_main_balance: the call is outside the try
\* of run_normal_mode_session, so the exception reaches the caller.
GetBalanceRaises ==
    /\ pc = "start"
    /\ pc' = "raised"
    /\ UNCHANGED clock_vars
    /\ UNCHANGED loop_vars
    /\ UNCHANGED api_vars
    /\ UNCHANGED fetch_vars
    /\ UNCHANGED <<config, max_bets, price_cache, session, should_stop, min_bet, request,
                   response, result, results, withdraw_request, log_reason, sum_deltas,
                   side_vars, pass_vars>>

\* roll_normal_mode up to the play_dice call: the strategy, the stake and the
\* direction are chosen, the RollResult is constructed and the bet is sent.
PlaceBet(s) ==
    LET strategy == _determine_strategy(s.bet_count + 1)
        win_chance == IF strategy = HIGH_RISK
                      THEN config.normal_mode.high_risk_win_chance
                      ELSE config.normal_mode.low_risk_win_chance
        bet_percent == IF strategy = HIGH_RISK
                       THEN config.normal_mode.high_risk_bet_percent
                       ELSE config.normal_mode.low_risk_bet_percent
        bet_amount == _calculate_bet_amount(s.current_balance, bet_percent)
        is_high == _get_bet_direction(s)
    IN  /\ result' = RollResult(bet_amount, win_chance, is_high, strategy)
        /\ request' = [ symbol |-> "btc",
                        amount |-> bet_amount,
                        chance |-> win_chance,
                        is_high |-> is_high,
                        faucet |-> FALSE ]

\* What roll_normal_mode decides for a session before it sends the bet: the
\* stake, the win chance, the direction and the strategy.
BetDirective(s) ==
    LET strategy == _determine_strategy(s.bet_count + 1)
        bet_percent == IF strategy = HIGH_RISK
                       THEN config.normal_mode.high_risk_bet_percent
                       ELSE config.normal_mode.low_risk_bet_percent
    IN  [ bet_amount |-> _calculate_bet_amount(s.current_balance, bet_percent),
          win_chance |-> IF strategy = HIGH_RISK
                         THEN config.normal_mode.high_risk_win_chance
                         ELSE config.normal_mode.low_risk_win_chance,
          bet_high |-> _get_bet_direction(s),
          strategy |-> strategy ]

\* Mutant of FinishBet: a failed withdrawal rolls the session back.
FinishBetRollsBack ==
    \E win \in BOOLEAN,
       profit \in Wire(Profits),
       balances \in {{}} \cup {{[main |-> m, faucet |-> <<0>>]} : m \in Wire(Balances)},
       priced \in PriceLookups(price_cache["btc"]) :
        LET resp == [ result |-> win, profit |-> profit, balances |-> balances ]
            new_faucet == IF balances = {} THEN <<0>> ELSE Some(balances).faucet
            new_main == IF balances = {} THEN <<0>> ELSE Some(balances).main
            s2 == UpdateSession(session, result.bet_high, win, profit, new_main)
            usd_value == _calculate_usd_value(s2.current_balance, priced[1])
            withdraws == /\ config.auto_withdraw
                         /\ config.withdrawal_address # ""
                         /\ usd_value >= config.withdrawal_min_usd
        IN  \E withdraw_ok \in IF withdraws THEN BOOLEAN ELSE {FALSE} :
                /\ response' = resp
                /\ session' = IF withdraws /\ ~withdraw_ok THEN session ELSE s2
                /\ sum_deltas' = sum_deltas + (IF profit = <<>> THEN 0 ELSE profit[1])
                /\ price_cache' = [price_cache EXCEPT !["btc"] = priced[2]]
                /\ cashout_request' = <<>>
                /\ main_usd' = {}
                /\ failed' = IF withdraws /\ ~withdraw_ok THEN {"withdraw"} ELSE {}
                /\ withdraw_request' =
                       IF withdraws
                       THEN << [ symbol |-> "btc",
                                 address |-> config.withdrawal_address,
                                 amount |-> new_main ] >>
                       ELSE <<>>
                /\ result' = [ result EXCEPT
                                 !.win = win,
                                 !.profit = profit,
                                 !.roll_number = 0,
                                 !.new_faucet_balance = new_faucet,
                                 !.new_main_balance = new_main,
                                 !.usd_value = usd_value,
                                 !.withdrawal_triggered = withdraws,
                                 !.withdrawal_success = withdraw_ok ]

\* Mutant of FinishBet: a successful withdrawal takes the withdrawn amount off
\* the session's balance.
FinishBetDeductsWithdrawal ==
    \E win \in BOOLEAN,
       profit \in Wire(Profits),
       balances \in {{}} \cup {{[main |-> m, faucet |-> <<0>>]} : m \in Wire(Balances)},
       priced \in PriceLookups(price_cache["btc"]) :
        LET resp == [ result |-> win, profit |-> profit, balances |-> balances ]
            new_faucet == IF balances = {} THEN <<0>> ELSE Some(balances).faucet
            new_main == IF balances = {} THEN <<0>> ELSE Some(balances).main
            s2 == UpdateSession(session, result.bet_high, win, profit, new_main)
            usd_value == _calculate_usd_value(s2.current_balance, priced[1])
            withdraws == /\ config.auto_withdraw
                         /\ config.withdrawal_address # ""
                         /\ usd_value >= config.withdrawal_min_usd
        IN  \E withdraw_ok \in IF withdraws THEN BOOLEAN ELSE {FALSE} :
                /\ response' = resp
                /\ session' = IF withdraws /\ withdraw_ok
                            THEN [s2 EXCEPT !.current_balance = 0]
                            ELSE s2
                /\ sum_deltas' = sum_deltas + (IF profit = <<>> THEN 0 ELSE profit[1])
                /\ price_cache' = [price_cache EXCEPT !["btc"] = priced[2]]
                /\ cashout_request' = <<>>
                /\ main_usd' = {}
                /\ failed' = IF withdraws /\ ~withdraw_ok THEN {"withdraw"} ELSE {}
                /\ withdraw_request' =
                       IF withdraws
                       THEN << [ symbol |-> "btc",
                                 address |-> config.withdrawal_address,
                                 amount |-> new_main ] >>
                       ELSE <<>>
                /\ result' = [ result EXCEPT
                                 !.win = win,
                                 !.profit = profit,
                                 !.roll_number = 0,
                                 !.new_faucet_balance = new_faucet,
                                 !.new_main_balance = new_main,
                                 !.usd_value = usd_value,
                                 !.withdrawal_triggered = withdraws,
                                 !.withdrawal_success = withdraw_ok ]

\* Mutant of FinishBet: without an entry for the currency in the response the
\* session keeps the balance it had.
FinishBetKeepsBalanceWhenMissing ==
    \E win \in BOOLEAN,
       profit \in Wire(Profits),
       balances \in {{}} \cup {{[main |-> m, faucet |-> <<0>>]} : m \in Wire(Balances)},
       priced \in PriceLookups(price_cache["btc"]) :
        LET resp == [ result |-> win, profit |-> profit, balances |-> balances ]
            new_faucet == IF balances = {} THEN <<0>> ELSE Some(balances).faucet
            new_main == IF balances = {} THEN <<session.current_balance>>
                        ELSE Some(balances).main
            s2 == UpdateSession(session, result.bet_high, win, profit, new_main)
            usd_value == _calculate_usd_value(s2.current_balance, priced[1])
            withdraws == /\ config.auto_withdraw
                         /\ config.withdrawal_address # ""
                         /\ usd_value >= config.withdrawal_min_usd
        IN  \E withdraw_ok \in IF withdraws THEN BOOLEAN ELSE {FALSE} :
                /\ response' = resp
                /\ session' = s2
                /\ sum_deltas' = sum_deltas + (IF profit = <<>> THEN 0 ELSE profit[1])
                /\ price_cache' = [price_cache EXCEPT !["btc"] = priced[2]]
                /\ cashout_request' = <<>>
                /\ main_usd' = {}
                /\ failed' = IF withdraws /\ ~withdraw_ok THEN {"withdraw"} ELSE {}
                /\ withdraw_request' =
                       IF withdraws
                       THEN << [ symbol |-> "btc",
                                 address |-> config.withdrawal_address,
                                 amount |-> new_main ] >>
                       ELSE <<>>
                /\ result' = [ result EXCEPT
                                 !.win = win,
                                 !.profit = profit,
                                 !.roll_number = 0,
                                 !.new_faucet_balance = new_faucet,
                                 !.new_main_balance = new_main,
                                 !.usd_value = usd_value,
                                 !.withdrawal_triggered = withdraws,
                                 !.withdrawal_success = withdraw_ok ]

\* Mutant of FinishBet: the withdrawal address is not looked at.
FinishBetWithdrawsWithoutAddress ==
    \E win \in BOOLEAN,
       profit \in Wire(Profits),
       balances \in {{}} \cup {{[main |-> m, faucet |-> <<0>>]} : m \in Wire(Balances)},
       priced \in PriceLookups(price_cache["btc"]) :
        LET resp == [ result |-> win, profit |-> profit, balances |-> balances ]
            new_faucet == IF balances = {} THEN <<0>> ELSE Some(balances).faucet
            new_main == IF balances = {} THEN <<0>> ELSE Some(balances).main
            s2 == UpdateSession(session, result.bet_high, win, profit, new_main)
            usd_value == _calculate_usd_value(s2.current_balance, priced[1])
            withdraws == /\ config.auto_withdraw
                         /\ usd_value >= config.withdrawal_min_usd
        IN  \E withdraw_ok \in IF withdraws THEN BOOLEAN ELSE {FALSE} :
                /\ response' = resp
                /\ session' = s2
                /\ sum_deltas' = sum_deltas + (IF profit = <<>> THEN 0 ELSE profit[1])
                /\ price_cache' = [price_cache EXCEPT !["btc"] = priced[2]]
                /\ cashout_request' = <<>>
                /\ main_usd' = {}
                /\ failed' = IF withdraws /\ ~withdraw_ok THEN {"withdraw"} ELSE {}
                /\ withdraw_request' =
                       IF withdraws
                       THEN << [ symbol |-> "btc",
                                 address |-> config.withdrawal_address,
                                 amount |-> new_main ] >>
                       ELSE <<>>
                /\ result' = [ result EXCEPT
                                 !.win = win,
                                 !.profit = profit,
                                 !.roll_number = 0,
                                 !.new_faucet_balance = new_faucet,
                                 !.new_main_balance = new_main,
                                 !.usd_value = usd_value,
                                 !.withdrawal_triggered = withdraws,
                                 !.withdrawal_success = withdraw_ok ]

\* roll_normal_mode after play_dice returned: the response is parsed, the
\* session updated, the new balance valued and, when configured, withdrawn.
\* The RollResult returned is result'.
FinishBet ==
    \E win \in BOOLEAN,
       profit \in Wire(Profits),
       balances \in {{}} \cup {{[main |-> m, faucet |-> <<0>>]} : m \in Wire(Balances)},
       priced \in PriceLookups(price_cache["btc"]) :
        LET resp == [ result |-> win, profit |-> profit, balances |-> balances ]
            new_faucet == IF balances = {} THEN <<0>> ELSE Some(balances).faucet
            new_main == IF balances = {} THEN <<0>> ELSE Some(balances).main
            s2 == UpdateSession(session, result.bet_high, win, profit, new_main)
            usd_value == _calculate_usd_value(s2.current_balance, priced[1])
            withdraws == /\ config.auto_withdraw
                         /\ config.withdrawal_address # ""
                         /\ usd_value >= config.withdrawal_min_usd
        IN  \E withdraw_ok \in IF withdraws THEN BOOLEAN ELSE {FALSE} :
                /\ response' = resp
                /\ session' = s2
                /\ sum_deltas' = sum_deltas + (IF profit = <<>> THEN 0 ELSE profit[1])
                /\ price_cache' = [price_cache EXCEPT !["btc"] = priced[2]]
                /\ cashout_request' = <<>>
                /\ main_usd' = {}
                /\ failed' = IF withdraws /\ ~withdraw_ok THEN {"withdraw"} ELSE {}
                /\ withdraw_request' =
                       IF withdraws
                       THEN << [ symbol |-> "btc",
                                 address |-> config.withdrawal_address,
                                 amount |-> new_main ] >>
                       ELSE <<>>
                /\ result' = [ result EXCEPT
                                 !.win = win,
                                 !.profit = profit,
                                 !.roll_number = 0,
                                 !.new_faucet_balance = new_faucet,
                                 !.new_main_balance = new_main,
                                 !.usd_value = usd_value,
                                 !.withdrawal_triggered = withdraws,
                                 !.withdrawal_success = withdraw_ok ]

\* roll_normal_mode after play_dice returned a response whose profit is
\* Signalling: the response is parsed (its balances here without an entry for
\* the currency), the bet is counted and the direction stored, and the
\* addition to total_profit raises.
InterruptedBet ==
    \E win \in BOOLEAN :
        /\ response' = [ result |-> win, profit |-> Signalling, balances |-> {} ]
        /\ session' = UpdateSessionInterrupted(session, result.bet_high)
        /\ result' = [ result EXCEPT !.win = win, !.profit = Signalling ]

\* Mutant of PlaceFaucetBet: the bet is placed from the main balance.
PlaceFaucetBetFromMain(currency, amount, win_chance) ==
    /\ result' = FaucetRollResult(currency, _to_decimal(amount) * AmountScale, win_chance)
    /\ request' = [ symbol |-> currency,
                    amount |-> _to_decimal(amount) * AmountScale,
                    chance |-> win_chance,
                    is_high |-> config.bet_high,
                    faucet |-> FALSE ]
    /\ response' = NoResponse
    /\ withdraw_request' = <<>>
    /\ cashout_request' = <<>>
    /\ failed' = {}
    /\ main_usd' = {}

\* roll_faucet(currency, amount, win_chance) up to the play_dice call: the
\* RollResult is constructed and the bet is sent with the amount as given, in
\* the configured direction, from the faucet balance.  No call of the new
\* wager has been answered yet.
PlaceFaucetBet(currency, amount, win_chance) ==
    /\ result' = FaucetRollResult(currency, _to_decimal(amount) * AmountScale, win_chance)
    /\ request' = [ symbol |-> currency,
                    amount |-> _to_decimal(amount) * AmountScale,
                    chance |-> win_chance,
                    is_high |-> config.bet_high,
                    faucet |-> TRUE ]
    /\ response' = NoResponse
    /\ withdraw_request' = <<>>
    /\ cashout_request' = <<>>
    /\ failed' = {}
    /\ main_usd' = {}

\* roll_faucet after play_dice returned: the response is parsed and the new
\* faucet balance valued; at or above the threshold faucet_cashout is called,
\* and after a cashout that succeeded, with auto_withdraw and an address, the
\* balances are fetched again and the main balance of the currency, when
\* worth enough, is withdrawn.  The exchange's answer to that fetch (info) and
\* the price at that moment are the environment's whether or not the code
\* asks: main_usd keeps what the main balance is worth then.  A raising
\* cashout, fetch or withdrawal is caught.  The RollResult returned is result'.
FinishFaucetBet ==
    \E win \in BOOLEAN,
       profit \in Wire(Profits),
       balances \in {{}} \cup {{[main |-> m, faucet |-> f]} :
                                   m \in Wire({1}), f \in Wire(Balances)},
       priced \in PriceLookups(price_cache[request.symbol]) :
        LET currency == request.symbol
            resp == [ result |-> win, profit |-> profit, balances |-> balances ]
            new_faucet == IF balances = {} THEN <<0>> ELSE Some(balances).faucet
            usd_value == _calculate_usd_value(_to_decimal(new_faucet), priced[1])
            cashes == ShouldCashout(usd_value)
        IN  \E cashout_ok \in IF cashes THEN BOOLEAN ELSE {FALSE} :
            \E info \in IF cashout_ok THEN UserInfos ELSE {<<>>},
               priced2 \in IF cashout_ok THEN PriceLookups(priced[2]) ELSE {priced} :
                LET refetches == /\ cashout_ok
                                 /\ config.auto_withdraw
                                 /\ config.withdrawal_address # ""
                    found == info # <<>> /\ info[1] # {}
                    main_bal == IF found THEN _to_decimal(Some(info[1]).main) ELSE 0
                    main_value == _calculate_usd_value(main_bal, priced2[1])
                    withdraws == ShouldWithdraw(cashout_ok, found, main_value)
                IN  \E withdraw_ok \in IF withdraws THEN BOOLEAN ELSE {FALSE} :
                        /\ response' = resp
                        /\ price_cache' =
                               [ price_cache EXCEPT ![currency] =
                                   IF refetches /\ found THEN priced2[2] ELSE priced[2] ]
                        /\ cashout_request' = IF cashes THEN <<currency>> ELSE <<>>
                        /\ main_usd' = IF cashout_ok /\ found THEN {main_value} ELSE {}
                        /\ withdraw_request' =
                               IF withdraws
                               THEN << [ symbol |-> currency,
                                         address |-> config.withdrawal_address,
                                         amount |-> <<main_bal>> ] >>
                               ELSE <<>>
                        /\ failed' =
                               (IF cashes /\ ~cashout_ok THEN {"cashout"} ELSE {})
                               \cup
                               (IF refetches /\ info = <<>> THEN {"user_info"} ELSE {})
                               \cup
                               (IF withdraws /\ ~withdraw_ok THEN {"withdraw"} ELSE {})
                        /\ result' = FaucetResult(result, resp, usd_value, cashes,
                                                  cashout_ok, withdraws, withdraw_ok)

\* Mutant of LoopIteration: the balance-too-low check comes before the stop
\* conditions.
LoopIterationMinBetFirst ==
    /\ pc = "loop"
    /\ IF ~(session.bet_count < max_bets_limit)
       THEN /\ pc' = "done"
            /\ UNCHANGED <<should_stop, min_bet, request, result, log_reason>>
       ELSE LET mb == _calculate_bet_amount(
                          session.current_balance,
                          Min(config.normal_mode.low_risk_bet_percent,
                              config.normal_mode.high_risk_bet_percent))
            IN  /\ min_bet' = {mb}
                /\ IF mb <= 0
                   THEN /\ pc' = "done"
                        /\ log_reason' = "Balance too low to continue betting"
                        /\ UNCHANGED <<should_stop, request, result>>
                   ELSE /\ should_stop' = {_should_stop_session(session)}
                        /\ IF _should_stop_session(session)[1]
                           THEN /\ pc' = "done"
                                /\ log_reason' = _should_stop_session(session)[2]
                                /\ UNCHANGED <<request, result>>
                           ELSE /\ PlaceBet(session)
                                /\ pc' = "play_dice"
                                /\ UNCHANGED log_reason
    /\ UNCHANGED clock_vars
    /\ UNCHANGED loop_vars
    /\ UNCHANGED api_vars
    /\ UNCHANGED fetch_vars
    /\ UNCHANGED <<config, max_bets, price_cache, session, response, results,
                   withdraw_request, sum_deltas, side_vars, pass_vars>>

\* Mutant of LoopIteration: the balance-too-low check never ends the session.
LoopIterationWithoutMinBet ==
    /\ pc = "loop"
    /\ IF ~(session.bet_count < max_bets_limit)
       THEN /\ pc' = "done"
            /\ UNCHANGED <<should_stop, min_bet, request, result, log_reason>>
       ELSE /\ should_stop' = {_should_stop_session(session)}
            /\ IF _should_stop_session(session)[1]
               THEN /\ pc' = "done"
                    /\ log_reason' = _should_stop_session(session)[2]
                    /\ UNCHANGED <<min_bet, request, result>>
               ELSE LET mb == _calculate_bet_amount(
                                  session.current_balance,
                                  Min(config.normal_mode.low_risk_bet_percent,
                                      config.normal_mode.high_risk_bet_percent))
                    IN  /\ min_bet' = {mb}
                        /\ IF FALSE
                           THEN /\ pc' = "done"
                                /\ log_reason' = "Balance too low to continue betting"
                                /\ UNCHANGED <<request, result>>
                           ELSE /\ PlaceBet(session)
                                /\ pc' = "play_dice"
                                /\ UNCHANGED log_reason
    /\ UNCHANGED clock_vars
    /\ UNCHANGED loop_vars
    /\ UNCHANGED api_vars
    /\ UNCHANGED fetch_vars
    /\ UNCHANGED <<config, max_bets, price_cache, session, response, results,
                   withdraw_request, sum_deltas, side_vars, pass_vars>>

\* One pass through the head of the while loop of run_normal_mode_session and,
\* when no stop condition holds, roll_normal_mode up to the play_dice call.
LoopIteration ==
    /\ pc = "loop"
    /\ IF ~(session.bet_count < max_bets_limit)
       THEN /\ pc' = "done"
            /\ UNCHANGED <<should_stop, min_bet, request, result, log_reason>>
       ELSE /\ should_stop' = {_should_stop_session(session)}
            /\ IF _should_stop_session(session)[1]
               THEN /\ pc' = "done"
                    /\ log_reason' = _should_stop_session(session)[2]
                    /\ UNCHANGED <<min_bet, request, result>>
               ELSE LET mb == _calculate_bet_amount(
                                  session.current_balance,
                                  Min(config.normal_mode.low_risk_bet_percent,
                                      config.normal_mode.high_risk_bet_percent))
                    IN  /\ min_bet' = {mb}
                        /\ IF mb <= 0
                           THEN /\ pc' = "done"
                                /\ log_reason' = "Balance too low to continue betting"
                                /\ UNCHANGED <<request, result>>
                           ELSE /\ PlaceBet(session)
                                /\ pc' = "play_dice"
                                /\ UNCHANGED log_reason
    /\ UNCHANGED clock_vars
    /\ UNCHANGED loop_vars
    /\ UNCHANGED api_vars
    /\ UNCHANGED fetch_vars
    /\ UNCHANGED <<config, max_bets, price_cache, session, response, results,
                   withdraw_request, sum_deltas, side_vars, pass_vars>>

\* play_dice returns to the roll_normal_mode that run_normal_mode_session
\* called: the wager completes and its RollResult is appended to results.
PlayDiceReturns ==
    /\ pc = "play_dice"
    /\ FinishBet
    /\ results' = Append(results, Returned(result'))
    /\ pc' = "loop"
    /\ UNCHANGED clock_vars
    /\ UNCHANGED loop_vars
    /\ UNCHANGED api_vars
    /\ UNCHANGED fetch_vars
    /\ UNCHANGED <<config, max_bets, should_stop, min_bet, request, log_reason,
                   pass_vars>>

\* Mutant of PlayDiceRaises: the loop goes on after the error and the wager
\* is tried again.
PlayDiceRaisesRetries ==
    /\ pc = "play_dice"
    /\ pc' = "loop"
    /\ log_reason' = "Session error"
    /\ UNCHANGED clock_vars
    /\ UNCHANGED loop_vars
    /\ UNCHANGED api_vars
    /\ UNCHANGED fetch_vars
    /\ UNCHANGED <<config, max_bets, price_cache, session, should_stop, min_bet, request,
                   response, result, results, withdraw_request, sum_deltas, side_vars,
                   pass_vars>>

\* play_dice raises, or its response cannot be parsed (lines 601-614):
\* roll_normal_mode re-raises before it touched the session, and
\* run_normal_mode_session logs the error and ends the loop.
PlayDiceRaises ==
    /\ pc = "play_dice"
    /\ pc' = "done"
    /\ log_reason' = "Session error"
    /\ UNCHANGED clock_vars
    /\ UNCHANGED loop_vars
    /\ UNCHANGED api_vars
    /\ UNCHANGED fetch_vars
    /\ UNCHANGED <<config, max_bets, price_cache, session, should_stop, min_bet, request,
                   response, result, results, withdraw_request, sum_deltas, side_vars,
                   pass_vars>>

\* play_dice returns a profit that cannot be added: roll_normal_mode re-raises
\* from inside its session update, and run_normal_mode_session logs the error
\* and ends the loop.
PlayDiceReturnsSignalling ==
    /\ pc = "play_dice"
    /\ InterruptedBet
    /\ pc' = "done"
    /\ log_reason' = "Session error"
    /\ UNCHANGED clock_vars
    /\ UNCHANGED loop_vars
    /\ UNCHANGED api_vars
    /\ UNCHANGED fetch_vars
    /\ UNCHANGED <<config, max_bets, price_cache, should_stop, min_bet, request, results,
                   withdraw_request, sum_deltas, side_vars, pass_vars>>

Next ==
    \/ StartSession
    \/ GetBalanceRaises
    \/ LoopIteration
    \/ PlayDiceReturns
    \/ PlayDiceRaises
    \/ PlayDiceReturnsSignalling

Spec == Init /\ [][Next]_vars

\* The same session when every call returns or raises and the method keeps
\* running: a step that can be taken is eventually taken.
SpecFair == Init /\ [][Next]_vars /\ WF_vars(Next)

\* ------------------------------------------------- direct calls (SpecUnit)
\* _should_stop_session and roll_normal_mode are methods of FaucetBot that take
\* the session as an argument: SpecUnit calls each once on a session that the
\* caller constructed, with any balances, bet count and last direction (its
\* counters those of a session that lost every bet so far).  It also calls
\* roll_faucet once, as the roll command does, for a currency, an amount and a
\* win chance.
CallerSessions ==
    { [ NormalModeSession(i, c) EXCEPT
          !.bet_count = n,
          !.loss_count = n,
          !.consecutive_losses = n,
          !.last_direction_high = d ] :
      i \in Balances, c \in (0 - 1)..MaxBalance, n \in 0..MaxBets, d \in BOOLEAN }

UnitInit ==
    /\ \E cm \in Setups : config = cm[1] /\ max_bets = cm[2] /\ cm[2] = {}
    /\ price_cache = [c \in Currencies |-> {}]
    /\ \/ /\ pc = "call"
          /\ session \in CallerSessions
       \/ /\ pc = "call_faucet"
          /\ session = NormalModeSession(0, 0)
          /\ <<config, max_bets>> \in FaucetSetups
    /\ should_stop = {}
    /\ min_bet = {}
    /\ request = NoRequest
    /\ response = NoResponse
    /\ result = NoResult
    /\ results = <<>>
    /\ withdraw_request = <<>>
    /\ log_reason = ""
    /\ sum_deltas = 0
    /\ cashout_request = <<>>
    /\ failed = {}
    /\ main_usd = {}
    /\ faucet_currencies = <<>>
    /\ position = 0
    /\ faucet_index = 0
    /\ bets = <<>>
    /\ now = 0
    /\ price_cache_time = [c \in Currencies |-> {}]
    /\ price_call = NoPriceCall
    /\ iteration = 0
    /\ stop_on_cashout = FALSE
    /\ max_iterations = {}
    /\ request_delay = 1
    /\ last_request_time = 0
    /\ starts = <<>>
    /\ main_balance = {}

\* _should_stop_session(session) is called and returns.
CallShouldStopSession ==
    /\ pc = "call"
    /\ should_stop' = {_should_stop_session(session)}
    /\ pc' = "checked"
    /\ UNCHANGED clock_vars
    /\ UNCHANGED loop_vars
    /\ UNCHANGED api_vars
    /\ UNCHANGED fetch_vars
    /\ UNCHANGED <<config, max_bets, price_cache, session, min_bet, request, response,
                   result, results, withdraw_request, log_reason, sum_deltas, side_vars,
                   pass_vars>>

\* roll_normal_mode(currency, session) is called and places its bet.
CallRollNormalMode ==
    /\ pc = "call"
    /\ PlaceBet(session)
    /\ pc' = "direct_play_dice"
    /\ UNCHANGED clock_vars
    /\ UNCHANGED loop_vars
    /\ UNCHANGED api_vars
    /\ UNCHANGED fetch_vars
    /\ UNCHANGED <<config, max_bets, price_cache, session, should_stop, min_bet, response,
                   results, withdraw_request, log_reason, sum_deltas, side_vars,
                   pass_vars>>

\* play_dice returns: roll_normal_mode completes and returns its RollResult.
DirectPlayDiceReturns ==
    /\ pc = "direct_play_dice"
    /\ FinishBet
    /\ pc' = "returned"
    /\ UNCHANGED clock_vars
    /\ UNCHANGED loop_vars
    /\ UNCHANGED api_vars
    /\ UNCHANGED fetch_vars
    /\ UNCHANGED <<config, max_bets, should_stop, min_bet, request, results, log_reason,
                   pass_vars>>

\* play_dice raises, or its response cannot be parsed (lines 601-614):
\* roll_normal_mode re-raises to its caller before it touched the session.
DirectPlayDiceRaises ==
    /\ pc = "direct_play_dice"
    /\ pc' = "raised"
    /\ UNCHANGED clock_vars
    /\ UNCHANGED loop_vars
    /\ UNCHANGED api_vars
    /\ UNCHANGED fetch_vars
    /\ UNCHANGED <<config, max_bets, price_cache, session, should_stop, min_bet, request,
                   response, result, results, withdraw_request, log_reason, sum_deltas,
                   side_vars, pass_vars>>

\* play_dice returns a profit that cannot be added: roll_normal_mode re-raises
\* to its caller from inside its session update.
DirectPlayDiceReturnsSignalling ==
    /\ pc = "direct_play_dice"
    /\ InterruptedBet
    /\ pc' = "raised"
    /\ UNCHANGED clock_vars
    /\ UNCHANGED loop_vars
    /\ UNCHANGED api_vars
    /\ UNCHANGED fetch_vars
    /\ UNCHANGED <<config, max_bets, price_cache, should_stop, min_bet, request, results,
                   withdraw_request, log_reason, sum_deltas, side_vars, pass_vars>>

\* roll_faucet(currency, amount, win_chance) is called and places its bet.
CallRollFaucet ==
    /\ pc = "call_faucet"
    /\ \E amount \in 1..MaxBalance, win_chance \in BaseWinChances :
           PlaceFaucetBet("btc", <<amount>>, win_chance)
    /\ pc' = "faucet_play_dice"
    /\ UNCHANGED clock_vars
    /\ UNCHANGED loop_vars
    /\ UNCHANGED api_vars
    /\ UNCHANGED fetch_vars
    /\ UNCHANGED <<config, max_bets, price_cache, session, should_stop, min_bet, results,
                   log_reason, sum_deltas, pass_vars>>

\* play_dice returns: roll_faucet completes and returns its RollResult.
DirectFaucetReturns ==
    /\ pc = "faucet_play_dice"
    /\ FinishFaucetBet
    /\ pc' = "faucet_returned"
    /\ UNCHANGED clock_vars
    /\ UNCHANGED loop_vars
    /\ UNCHANGED api_vars
    /\ UNCHANGED fetch_vars
    /\ UNCHANGED <<config, max_bets, session, should_stop, min_bet, request, results,
                   log_reason, sum_deltas, pass_vars>>

\* Mutant of DirectFaucetRaises: the cashout was called before the failure.
DirectFaucetRaisesAfterCashout ==
    /\ pc = "faucet_play_dice"
    /\ pc' = "raised"
    /\ cashout_request' = <<request.symbol>>
    /\ UNCHANGED clock_vars
    /\ UNCHANGED loop_vars
    /\ UNCHANGED api_vars
    /\ UNCHANGED fetch_vars
    /\ UNCHANGED <<config, max_bets, price_cache, session, should_stop, min_bet, request,
                   response, result, results, withdraw_request, log_reason, sum_deltas,
                   failed, main_usd, pass_vars>>

\* play_dice raises, or its response cannot be parsed or valued (lines
\* 416-433): roll_faucet re-raises to its caller, before the cashout test.
DirectFaucetRaises ==
    /\ pc = "faucet_play_dice"
    /\ pc' = "raised"
    /\ UNCHANGED clock_vars
    /\ UNCHANGED loop_vars
    /\ UNCHANGED api_vars
    /\ UNCHANGED fetch_vars
    /\ UNCHANGED <<config, max_bets, price_cache, session, should_stop, min_bet, request,
                   response, result, results, withdraw_request, log_reason, sum_deltas,
                   side_vars, pass_vars>>

UnitNext ==
    \/ CallShouldStopSession
    \/ CallRollNormalMode
    \/ DirectPlayDiceReturns
    \/ DirectPlayDiceRaises
    \/ DirectPlayDiceReturnsSignalling
    \/ CallRollFaucet
    \/ DirectFaucetReturns
    \/ DirectFaucetRaises

SpecUnit == UnitInit /\ [][UnitNext]_vars

\* ------------------------------------------------ the faucet pass (SpecPass)
\* The pass over all faucet balances: the statements of bot.py 786-819, which
\* take the balances once, then wager each listed currency in turn through
\* roll_faucet.  pc is "pass_start" before get_faucet_currencies,
\* "pass_loop" at the head of the for loop, "pass_play_dice" while the bet of
\* roll_faucet is with the exchange, "pass_done" after the return and
\* "raised" when get_faucet_currencies raised.
PassInit ==
    /\ \E cm \in FaucetSetups : config = cm[1] /\ max_bets = cm[2]
    /\ price_cache = [c \in Currencies |-> {}]
    /\ pc = "pass_start"
    /\ session = NormalModeSession(0, 0)
    /\ should_stop = {}
    /\ min_bet = {}
    /\ request = NoRequest
    /\ response = NoResponse
    /\ result = NoResult
    /\ results = <<>>
    /\ withdraw_request = <<>>
    /\ log_reason = ""
    /\ sum_deltas = 0
    /\ cashout_request = <<>>
    /\ failed = {}
    /\ main_usd = {}
    /\ faucet_currencies = <<>>
    /\ position = 0
    /\ faucet_index = 0
    /\ bets = <<>>
    /\ now = 0
    /\ price_cache_time = [c \in Currencies |-> {}]
    /\ price_call = NoPriceCall
    /\ iteration = 0
    /\ stop_on_cashout = FALSE
    /\ max_iterations = {}
    /\ request_delay = 1
    /\ last_request_time = 0
    /\ starts = <<>>
    /\ main_balance = {}

\* The faucet values the exchange lists in a pass: none, zero, the largest
\* balance, and JSON true.
PassFaucetWires == {<<>>, <<0>>, <<MaxBalance>>, JsonTrue}

\* The balances list of the exchange's user-info: one entry per currency of
\* PassCurrencies, in that order, with the faucet values given.
ExchangeBalances(faucets) ==
    [ i \in 1..Len(PassCurrencies) |->
        [ currency |-> PassCurrencies[i], faucet |-> faucets[i] ] ]

\* get_faucet_currencies returns: the list is built from the exchange's
\* balances, each listed currency is valued once (which may fill its price
\* cache entry), and an empty list ends the pass with no wager.
GetFaucetCurrencies ==
    /\ pc = "pass_start"
    /\ \E faucets \in [1..Len(PassCurrencies) -> PassFaucetWires] :
           LET listed == get_faucet_currencies(ExchangeBalances(faucets))
               valued == { listed[i].currency : i \in 1..Len(listed) }
           IN  /\ faucet_currencies' = listed
               /\ \E cache \in [Currencies -> {{}} \cup {{p} : p \in Prices}] :
                      /\ \A c \in Currencies :
                             IF c \in valued
                             THEN \E priced \in PriceLookups(price_cache[c]) :
                                      cache[c] = priced[2]
                             ELSE cache[c] = price_cache[c]
                      /\ price_cache' = cache
               /\ IF listed = <<>>
                  THEN /\ pc' = "pass_done"
                       /\ log_reason' = "No currencies with faucet balance found."
                  ELSE /\ pc' = "pass_loop"
                       /\ log_reason' = log_reason
    /\ position' = 0
    /\ faucet_index' = 0
    /\ UNCHANGED clock_vars
    /\ UNCHANGED loop_vars
    /\ UNCHANGED api_vars
    /\ UNCHANGED fetch_vars
    /\ UNCHANGED <<config, max_bets, session, should_stop, min_bet, request, response,
                   result, results, withdraw_request, sum_deltas, side_vars, bets>>

\* api.get_user_info raises inside get_faucet_currencies: nothing in the pass
\* catches it.
GetFaucetCurrenciesRaises ==
    /\ pc = "pass_start"
    /\ pc' = "raised"
    /\ UNCHANGED clock_vars
    /\ UNCHANGED loop_vars
    /\ UNCHANGED api_vars
    /\ UNCHANGED fetch_vars
    /\ UNCHANGED <<config, max_bets, price_cache, session, should_stop, min_bet, request,
                   response, result, results, withdraw_request, log_reason, sum_deltas,
                   side_vars, pass_vars>>

\* One turn of the for loop up to the play_dice call of roll_faucet: the next
\* entry is taken; an entry whose amount is not positive is skipped, any
\* other advances faucet_index and is wagered with that index's win chance.
\* After the last entry the pass returns its results.
PassIteration ==
    /\ pc = "pass_loop"
    /\ IF position = Len(faucet_currencies)
       THEN /\ pc' = "pass_done"
            /\ UNCHANGED <<request, response, result, withdraw_request, side_vars,
                           position, faucet_index, bets>>
       ELSE LET fc == faucet_currencies[position + 1]
            IN  /\ position' = position + 1
                /\ faucet_index' = NextFaucetIndex(faucet_index, fc.faucet_balance)
                /\ IF _to_decimal(fc.faucet_balance) <= 0
                   THEN /\ pc' = "pass_loop"
                        /\ UNCHANGED <<request, response, result, withdraw_request,
                                       side_vars, bets>>
                   ELSE /\ PlaceFaucetBet(fc.currency, fc.faucet_balance,
                                          ProgressiveWinChance(faucet_index'))
                        /\ bets' = Append(bets, request')
                        /\ pc' = "pass_play_dice"
    /\ UNCHANGED clock_vars
    /\ UNCHANGED loop_vars
    /\ UNCHANGED api_vars
    /\ UNCHANGED fetch_vars
    /\ UNCHANGED <<config, max_bets, price_cache, session, should_stop, min_bet, results,
                   log_reason, sum_deltas, faucet_currencies>>

\* play_dice returns: roll_faucet completes, with its cashout and withdrawal,
\* and the pass appends the RollResult it returned.
PassPlayDiceReturns ==
    /\ pc = "pass_play_dice"
    /\ FinishFaucetBet
    /\ results' = Append(results, ReturnedFaucet(result'))
    /\ pc' = "pass_loop"
    /\ UNCHANGED clock_vars
    /\ UNCHANGED loop_vars
    /\ UNCHANGED api_vars
    /\ UNCHANGED fetch_vars
    /\ UNCHANGED <<config, max_bets, session, should_stop, min_bet, request, log_reason,
                   sum_deltas, pass_vars>>

\* Mutant of PassPlayDiceRaises: the failure ends the pass.
PassPlayDiceRaisesEndsPass ==
    /\ pc = "pass_play_dice"
    /\ pc' = "pass_done"
    /\ log_reason' = "Error processing"
    /\ UNCHANGED clock_vars
    /\ UNCHANGED loop_vars
    /\ UNCHANGED api_vars
    /\ UNCHANGED fetch_vars
    /\ UNCHANGED <<config, max_bets, price_cache, session, should_stop, min_bet, request,
                   response, result, results, withdraw_request, sum_deltas, side_vars,
                   pass_vars>>

\* roll_faucet raises (play_dice failed, or its response could not be parsed
\* or valued): the pass logs the error and goes on with the next entry.
PassPlayDiceRaises ==
    /\ pc = "pass_play_dice"
    /\ pc' = "pass_loop"
    /\ log_reason' = "Error processing"
    /\ UNCHANGED clock_vars
    /\ UNCHANGED loop_vars
    /\ UNCHANGED api_vars
    /\ UNCHANGED fetch_vars
    /\ UNCHANGED <<config, max_bets, price_cache, session, should_stop, min_bet, request,
                   response, result, results, withdraw_request, sum_deltas, side_vars,
                   pass_vars>>

PassNext ==
    \/ GetFaucetCurrencies
    \/ GetFaucetCurrenciesRaises
    \/ PassIteration
    \/ PassPlayDiceReturns
    \/ PassPlayDiceRaises

SpecPass == PassInit /\ [][PassNext]_vars

\* ---------------------------------------------- the price cache (SpecPrice)
\* Spec, SpecUnit and SpecPass leave to the environment whether a cached
\* price is still fresh.  SpecPrice carries the clock: time passes, and
\* _get_usd_price is called for a currency, at any time, with any answer of
\* the price source.
RefreshSecs == {0, 1, 2}

\* What the price source quotes: 0, or one of two positive prices.
Quotes == {0, 2, 3}

\* The currencies SpecPrice asks the price of.
PricedCurrencies == {"btc", "eth"}

\* _price_cache_time.get(symbol_lower, 0).
CacheTime(symbol) ==
    IF price_cache_time[symbol] = {} THEN 0 ELSE Some(price_cache_time[symbol])

\* Mutant of IsFresh: an entry as old as the refresh interval is still fresh.
IsFreshInclusive(cache, cache_time, t) ==
    cache # {} /\ (t - cache_time) <= config.price_refresh_sec

\* The cache test of _get_usd_price at time t: the currency is cached and
\* (now - cache_time) < price_refresh_sec.
IsFresh(cache, cache_time, t) ==
    cache # {} /\ (t - cache_time) < config.price_refresh_sec

PriceInit ==
    /\ \E r \in RefreshSecs : config = [ DefaultConfig EXCEPT !.price_refresh_sec = r ]
    /\ max_bets = {}
    /\ price_cache = [c \in Currencies |-> {}]
    /\ pc = "price_idle"
    /\ session = NormalModeSession(0, 0)
    /\ should_stop = {}
    /\ min_bet = {}
    /\ request = NoRequest
    /\ response = NoResponse
    /\ result = NoResult
    /\ results = <<>>
    /\ withdraw_request = <<>>
    /\ log_reason = ""
    /\ sum_deltas = 0
    /\ cashout_request = <<>>
    /\ failed = {}
    /\ main_usd = {}
    /\ faucet_currencies = <<>>
    /\ position = 0
    /\ faucet_index = 0
    /\ bets = <<>>
    /\ now = 0
    /\ price_cache_time = [c \in Currencies |-> {}]
    /\ price_call = NoPriceCall
    /\ iteration = 0
    /\ stop_on_cashout = FALSE
    /\ max_iterations = {}
    /\ request_delay = 1
    /\ last_request_time = 0
    /\ starts = <<>>
    /\ main_balance = {}

\* A second passes.
Tick ==
    /\ now < MaxTime
    /\ now' = now + 1
    /\ UNCHANGED <<config, max_bets, price_cache, pc, session, should_stop, min_bet,
                   request, response, result, results, withdraw_request, log_reason,
                   sum_deltas, side_vars, pass_vars, price_cache_time, price_call,
                   loop_vars, api_vars, fetch_vars>>

\* _get_usd_price(symbol) is called and returns.  The price source is
\* contacted, once, unless the cached entry is fresh; fetched is its answer
\* ({} when the request or its parsing fails).  A positive price is stored
\* with the time read at the start of the call.
GetUsdPrice ==
    /\ \E symbol \in PricedCurrencies :
         LET cache == price_cache[symbol]
             fresh == IsFresh(cache, CacheTime(symbol), now)
         IN  \E fetched \in IF fresh THEN {{}} ELSE {{}} \cup {{q} : q \in Quotes} :
                 LET priced == _get_usd_price(cache, fresh, fetched)
                     stored == ~fresh /\ fetched # {} /\ Some(fetched) > 0
                 IN  /\ price_cache' = [ price_cache EXCEPT ![symbol] = priced[2] ]
                     /\ price_cache_time' =
                            [ price_cache_time EXCEPT
                                ![symbol] = IF stored THEN {now} ELSE @ ]
                     /\ price_call' =
                            [ symbol |-> symbol,
                              at |-> now,
                              before |-> cache,
                              before_time |-> price_cache_time[symbol],
                              contacted |-> IF fresh THEN 0 ELSE 1,
                              fetched |-> fetched,
                              returned |-> priced[1] ]
    /\ UNCHANGED <<config, max_bets, pc, session, should_stop, min_bet, request, response,
                   result, results, withdraw_request, log_reason, sum_deltas, side_vars,
                   pass_vars, now, loop_vars, api_vars, fetch_vars>>

PriceNext ==
    \/ Tick
    \/ GetUsdPrice

SpecPrice == PriceInit /\ [][PriceNext]_vars

\* ------------------------------------------- run_continuous (SpecContinuous)
\* run_continuous(interval_sec, stop_on_cashout, max_iterations).  SpecPass
\* follows a pass step by step; here a pass is one step, and results is the
\* list it returned.  pc is "continuous_loop" at the head of the while loop,
\* "continuous_pass_done" when the pass has returned, "continuous_returned"
\* after a return and "raised" when the pass raised.
PassOutcomes == {"skipped", "failed", "returned", "cashed"}

\* The records a pass returns when the i-th currency of the exchange's list
\* fares as outcome[i] says: not listed or skipped, wagered and failed,
\* wagered and returned, wagered and cashed out.  Every wagered currency takes
\* the next win chance; only those whose wager returned leave a record.
PassRecords(outcome) ==
    LET Index(i) == Cardinality({ j \in 1..i : outcome[j] # "skipped" })
        Kept == { i \in 1..Len(PassCurrencies) : outcome[i] \in {"returned", "cashed"} }
        Nth(n) == CHOOSE i \in Kept : Cardinality({ j \in Kept : j <= i }) = n
    IN  [ n \in 1..Cardinality(Kept) |->
            [ currency |-> PassCurrencies[Nth(n)],
              win_chance |-> ProgressiveWinChance(Index(Nth(n))),
              cashout_success |-> outcome[Nth(n)] = "cashed" ] ]

\* `for r in results: if r.cashout_success`.
HasCashoutSuccess(rs) == \E i \in 1..Len(rs) : rs[i].cashout_success

ContinuousInit ==
    /\ \E cm \in FaucetSetups : config = cm[1] /\ max_bets = cm[2]
    /\ price_cache = [c \in Currencies |-> {}]
    /\ pc = "continuous_loop"
    /\ session = NormalModeSession(0, 0)
    /\ should_stop = {}
    /\ min_bet = {}
    /\ request = NoRequest
    /\ response = NoResponse
    /\ result = NoResult
    /\ results = <<>>
    /\ withdraw_request = <<>>
    /\ log_reason = ""
    /\ sum_deltas = 0
    /\ cashout_request = <<>>
    /\ failed = {}
    /\ main_usd = {}
    /\ faucet_currencies = <<>>
    /\ position = 0
    /\ faucet_index = 0
    /\ bets = <<>>
    /\ now = 0
    /\ price_cache_time = [c \in Currencies |-> {}]
    /\ price_call = NoPriceCall
    /\ iteration = 0
    /\ stop_on_cashout \in BOOLEAN
    /\ max_iterations \in {{}} \cup {{n} : n \in 0..MaxPasses}
    /\ request_delay = 1
    /\ last_request_time = 0
    /\ starts = <<>>
    /\ main_balance = {}

\* The loop body up to the return of the pass: iteration += 1, the faucets
\* are claimed (claim_all_faucets catches every error) and the pass runs.
ContinuousPass ==
    /\ pc = "continuous_loop"
    /\ iteration < MaxPasses
    /\ iteration' = iteration + 1
    /\ \E outcome \in [1..Len(PassCurrencies) -> PassOutcomes] :
           results' = PassRecords(outcome)
    /\ pc' = "continuous_pass_done"
    /\ UNCHANGED <<config, max_bets, price_cache, session, should_stop, min_bet, request,
                   response, result, withdraw_request, log_reason, sum_deltas, side_vars,
                   pass_vars, clock_vars, stop_on_cashout, max_iterations,
                   api_vars, fetch_vars>>

\* The pass raises (its listing of the balances failed): run_continuous
\* catches KeyboardInterrupt only.
ContinuousPassRaises ==
    /\ pc = "continuous_loop"
    /\ iteration < MaxPasses
    /\ iteration' = iteration + 1
    /\ pc' = "raised"
    /\ UNCHANGED <<config, max_bets, price_cache, session, should_stop, min_bet, request,
                   response, result, results, withdraw_request, log_reason, sum_deltas,
                   side_vars, pass_vars, clock_vars, stop_on_cashout, max_iterations,
                   api_vars, fetch_vars>>

\* Mutant of ContinuousCheck: a successful cashout stops the loop whether or
\* not stop_on_cashout is set.
ContinuousCheckIgnoresFlag ==
    /\ pc = "continuous_pass_done"
    /\ IF HasCashoutSuccess(results)
       THEN /\ pc' = "continuous_returned"
            /\ log_reason' = "Cashout successful! Stopping as requested."
       ELSE IF max_iterations # {} /\ iteration >= Some(max_iterations)
       THEN /\ pc' = "continuous_returned"
            /\ log_reason' = "Reached max iterations"
       ELSE /\ pc' = "continuous_loop"
            /\ log_reason' = "Waiting before next pass"
    /\ UNCHANGED <<config, max_bets, price_cache, session, should_stop, min_bet, request,
                   response, result, results, withdraw_request, sum_deltas, side_vars,
                   pass_vars, clock_vars, loop_vars, api_vars, fetch_vars>>

\* The rest of the loop body: the cashout check, the iteration limit, and
\* the sleep before the next pass.
ContinuousCheck ==
    /\ pc = "continuous_pass_done"
    /\ IF stop_on_cashout /\ HasCashoutSuccess(results)
       THEN /\ pc' = "continuous_returned"
            /\ log_reason' = "Cashout successful! Stopping as requested."
       ELSE IF max_iterations # {} /\ iteration >= Some(max_iterations)
       THEN /\ pc' = "continuous_returned"
            /\ log_reason' = "Reached max iterations"
       ELSE /\ pc' = "continuous_loop"
            /\ log_reason' = "Waiting before next pass"
    /\ UNCHANGED <<config, max_bets, price_cache, session, should_stop, min_bet, request,
                   response, result, results, withdraw_request, sum_deltas, side_vars,
                   pass_vars, clock_vars, loop_vars, api_vars, fetch_vars>>

ContinuousNext ==
    \/ ContinuousPass
    \/ ContinuousPassRaises
    \/ ContinuousCheck

SpecContinuous == ContinuousInit /\ [][ContinuousNext]_vars

\* ------------------------------------------------ the API client (SpecApi)
\* DuckDiceAPI._make_request: every method of the client goes through it, and
\* it calls _rate_limit first.  Time is in seconds; the statements between
\* the second time.time() of _rate_limit and the request take no time.
RequestDelays == {0, 1, 2}

\* Mutant of RateLimitSleep: _rate_limit never sleeps.
RateLimitSleepNever(t, last, required_delay) == 0

\* What _rate_limit sleeps when called at time t: required_delay - elapsed
\* when elapsed = t - _last_request_time is below required_delay.
RateLimitSleep(t, last, required_delay) ==
    IF t - last < required_delay THEN required_delay - (t - last) ELSE 0

ApiInit ==
    /\ config = DefaultConfig
    /\ max_bets = {}
    /\ price_cache = [c \in Currencies |-> {}]
    /\ pc = "api_idle"
    /\ session = NormalModeSession(0, 0)
    /\ should_stop = {}
    /\ min_bet = {}
    /\ request = NoRequest
    /\ response = NoResponse
    /\ result = NoResult
    /\ results = <<>>
    /\ withdraw_request = <<>>
    /\ log_reason = ""
    /\ sum_deltas = 0
    /\ cashout_request = <<>>
    /\ failed = {}
    /\ main_usd = {}
    /\ faucet_currencies = <<>>
    /\ position = 0
    /\ faucet_index = 0
    /\ bets = <<>>
    /\ now = 0
    /\ price_cache_time = [c \in Currencies |-> {}]
    /\ price_call = NoPriceCall
    /\ iteration = 0
    /\ stop_on_cashout = FALSE
    /\ max_iterations = {}
    /\ request_delay \in RequestDelays
    /\ last_request_time = 0
    /\ starts = <<>>
    /\ main_balance = {}

\* A second passes between two calls of the client.
ApiTick ==
    /\ now < MaxTime
    /\ now' = now + 1
    /\ UNCHANGED <<config, max_bets, price_cache, pc, session, should_stop, min_bet,
                   request, response, result, results, withdraw_request, log_reason,
                   sum_deltas, side_vars, pass_vars, price_cache_time, price_call,
                   loop_vars, api_vars, fetch_vars>>

\* _make_request is called at time now: _rate_limit sleeps what is missing
\* of the delay (time.sleep may sleep longer: over), records the time after
\* the sleep, and the request starts; it returns a response or raises.
MakeRequest ==
    /\ \E over \in {0, 1}, request_failed \in BOOLEAN :
         LET slept == RateLimitSleep(now, last_request_time, request_delay)
             started == now + slept + (IF slept > 0 THEN over ELSE 0)
             made == [ called |-> now, at |-> started, failed |-> request_failed ]
         IN  /\ started <= MaxTime
             /\ now' = started
             /\ last_request_time' = started
             /\ starts' = IF Len(starts) < 2 THEN Append(starts, made)
                          ELSE <<starts[2], made>>
    /\ UNCHANGED <<config, max_bets, price_cache, pc, session, should_stop, min_bet,
                   request, response, result, results, withdraw_request, log_reason,
                   sum_deltas, side_vars, pass_vars, price_cache_time, price_call,
                   loop_vars, request_delay, fetch_vars>>

ApiNext ==
    \/ ApiTick
    \/ MakeRequest

SpecApi == ApiInit /\ [][ApiNext]_vars

\* ================================================================== claims
\* The stop conditions in the words of the specification, for a session s.
MaxBetsHolds(s) == s.bet_count >= config.normal_mode.max_bets_per_session

\* (initial - current) / initial * 100 >= stopLossPercent, with initial > 0.
StopLossHolds(s) ==
    /\ s.initial_balance > 0
    /\ 100 * (s.initial_balance - s.current_balance)
           >= config.normal_mode.stop_loss_percent * s.initial_balance

\* (current - initial) / initial * 100 >= takeProfitPercent, with initial > 0.
TakeProfitHolds(s) ==
    /\ s.initial_balance > 0
    /\ 100 * (s.current_balance - s.initial_balance)
           >= config.normal_mode.take_profit_percent * s.initial_balance

\* The minimum viable stake is positive: currentBalance times the smaller of
\* the two bet percentages, over 100.
MinStakePositive(s) ==
    /\ s.current_balance > 0
    /\ config.normal_mode.low_risk_bet_percent > 0
    /\ config.normal_mode.high_risk_bet_percent > 0

\* The tag the specification gives the wager with 1-based index n.
TagOf(n) ==
    IF /\ config.normal_mode.high_risk_frequency > 0
       /\ n % config.normal_mode.high_risk_frequency = 0
    THEN HIGH_RISK
    ELSE LOW_RISK

\* C1: the wager with 1-based index n (n = bet_count + 1 when roll_normal_mode
\* selects the strategy) is HIGH_RISK iff high_risk_frequency > 0 and
\* n mod high_risk_frequency = 0, and LOW_RISK otherwise: for the bet in
\* flight and for every RollResult the session returned.
C1_StrategyTag ==
    /\ pc = "play_dice" => result.strategy = TagOf(session.bet_count + 1)
    /\ \A n \in 1..Len(results) : results[n].strategy = TagOf(n)
    /\ config.normal_mode.high_risk_frequency = 0 =>
           \A n \in 1..Len(results) : results[n].strategy = LOW_RISK

\* C1 witness: with a high-risk bet every 2nd bet, bet 1 was LOW_RISK, bet 2
\* HIGH_RISK and bet 3 LOW_RISK again.
C1_Witness ==
    /\ config.normal_mode.high_risk_frequency = 2
    /\ Len(results) = 3
    /\ results[1].strategy = LOW_RISK
    /\ results[2].strategy = HIGH_RISK
    /\ results[3].strategy = LOW_RISK

\* C2: in every state of a session win_count + loss_count = bet_count; after
\* at least one completed wager exactly one of consecutive_wins and
\* consecutive_losses is nonzero, and before the first both are zero.
C2_Counters ==
    /\ session.win_count + session.loss_count = session.bet_count
    /\ session.bet_count >= 1 =>
           (session.consecutive_wins = 0) # (session.consecutive_losses = 0)
    /\ session.bet_count = 0 =>
           session.consecutive_wins = 0 /\ session.consecutive_losses = 0

\* C2 witness: a loss, then a win (the losing streak is broken), then a
\* failed submission.
C2_Witness ==
    /\ pc = "done"
    /\ log_reason = "Session error"
    /\ session.bet_count = 2
    /\ session.loss_count = 1
    /\ session.win_count = 1
    /\ session.consecutive_wins = 1
    /\ session.consecutive_losses = 0

\* C3: for a session with bet_count < max_bets_per_session,
\* _should_stop_session reports stop-loss exactly when initial_balance > 0 and
\* the loss percentage is >= stop_loss_percent, take-profit exactly when
\* initial_balance > 0, stop-loss does not hold and the profit percentage is
\* >= take_profit_percent, and neither when initial_balance = 0.
C3_StopLossTakeProfit ==
    (pc = "checked" /\ ~MaxBetsHolds(session)) =>
        LET r == Some(should_stop)
        IN  /\ (r = <<TRUE, "Stop-loss triggered">>) <=> StopLossHolds(session)
            /\ (r = <<TRUE, "Take-profit triggered">>)
                   <=> (~StopLossHolds(session) /\ TakeProfitHolds(session))
            /\ session.initial_balance = 0 => r = <<FALSE, "">>

\* C3 witness: a loss of exactly stop_loss_percent is reported as stop-loss.
C3_Witness ==
    /\ pc = "checked"
    /\ ~MaxBetsHolds(session)
    /\ session.initial_balance > 0
    /\ 100 * (session.initial_balance - session.current_balance)
           = config.normal_mode.stop_loss_percent * session.initial_balance
    /\ should_stop = {<<TRUE, "Stop-loss triggered">>}

\* C4: a wager is submitted only in a session state where bet_count <
\* max_bets_per_session, neither stop-loss nor take-profit holds, and the
\* minimum viable stake is positive.
C4_StopBeforeWager ==
    pc = "play_dice" =>
        /\ ~MaxBetsHolds(session)
        /\ ~StopLossHolds(session)
        /\ ~TakeProfitHolds(session)
        /\ MinStakePositive(session)
        /\ should_stop = {<<FALSE, "">>}
        /\ min_bet # {} /\ Some(min_bet) > 0

\* C4 witness: a second wager is submitted after the balance changed.
C4_Witness ==
    /\ pc = "play_dice"
    /\ session.bet_count = 1
    /\ session.current_balance # session.initial_balance

\* C5: once max_bets_per_session wagers are completed (their RollResults are
\* in results) the stop check is true with the reason "Max bets reached", no
\* further wager is attempted, and no wager number max_bets_per_session + 1 is
\* ever submitted.
C5_MaxBets ==
    /\ session.bet_count <= config.normal_mode.max_bets_per_session
    /\ Len(results) <= config.normal_mode.max_bets_per_session
    /\ (/\ pc \in {"loop", "play_dice", "done"}
        /\ Len(results) >= config.normal_mode.max_bets_per_session) =>
           /\ pc # "play_dice"
           /\ _should_stop_session(session) = <<TRUE, "Max bets reached">>
           /\ pc = "done" => log_reason \in {"", "Max bets reached"}
           /\ (pc = "done" /\ max_bets_limit > session.bet_count) =>
                  /\ should_stop = {<<TRUE, "Max bets reached">>}
                  /\ log_reason = "Max bets reached"

\* C5 witness: max_bets_per_session = 3, a larger max_bets argument, and the
\* session ended after its 3rd wager with "Max bets reached".
C5_Witness ==
    /\ pc = "done"
    /\ config.normal_mode.max_bets_per_session = 3
    /\ session.bet_count = 3
    /\ should_stop = {<<TRUE, "Max bets reached">>}
    /\ log_reason = "Max bets reached"

\* The reasons of the four stop conditions, as logged.
StopReasons ==
    { "Max bets reached", "Stop-loss triggered", "Take-profit triggered",
      "Balance too low to continue betting" }

\* The reason of the first stop condition that holds of session s, in the
\* order max bets, stop-loss, take-profit, balance too low.
FirstStopReason(s) ==
    IF MaxBetsHolds(s) THEN "Max bets reached"
    ELSE IF StopLossHolds(s) THEN "Stop-loss triggered"
    ELSE IF TakeProfitHolds(s) THEN "Take-profit triggered"
    ELSE IF ~MinStakePositive(s) THEN "Balance too low to continue betting"
    ELSE "none"

\* C6: a session that stops on one of the four stop conditions stops with the
\* reason of the first that holds, in the order max bets, stop-loss,
\* take-profit, balance too low.
C6_FirstReasonWins ==
    (pc = "done" /\ log_reason \in StopReasons) =>
        log_reason = FirstStopReason(session)

\* C6 witness: the reported balance dropped to 0 with stop_loss_percent <= 100:
\* the minimum viable stake is 0 too, and the session stopped with stop-loss.
C6_Witness ==
    /\ pc = "done"
    /\ session.initial_balance > 0
    /\ session.current_balance = 0
    /\ config.normal_mode.stop_loss_percent <= 100
    /\ ~MinStakePositive(session)
    /\ ~MaxBetsHolds(session)
    /\ log_reason = "Stop-loss triggered"

\* C7: after every completed wager current_balance is the post-bet main
\* balance the collaborator reported for that wager.
C7_BalanceIsReported ==
    (/\ session.bet_count >= 1
     /\ response.balances # {}
     /\ Some(response.balances).main # <<>>) =>
        session.current_balance = Some(response.balances).main[1]

\* C7 witness: the first wager wins, and the balance reported for it is not
\* the initial balance plus the reported delta.
C7_Witness ==
    /\ session.bet_count = 1
    /\ response.result
    /\ session.win_count = 1
    /\ session.consecutive_wins = 1
    /\ response.profit # <<>>
    /\ response.balances # {}
    /\ Some(response.balances).main # <<>>
    /\ Some(response.balances).main[1] # session.initial_balance + response.profit[1]
    /\ session.current_balance = Some(response.balances).main[1]

\* C8: total_profit is the sum of the profit deltas reported for the completed
\* wagers of the session (0 before the first).
C8_TotalProfit ==
    /\ session.total_profit = sum_deltas
    /\ session.bet_count = 0 => session.total_profit = 0

\* C8 witness: after two wagers the profit is not 0 and is not the change of
\* the balance.
C8_Witness ==
    /\ session.bet_count = 2
    /\ session.total_profit # 0
    /\ session.total_profit # session.current_balance - session.initial_balance

\* The bet percentage of the strategy tag of the RollResult being built.
SelectedBetPercent ==
    IF result.strategy = HIGH_RISK
    THEN config.normal_mode.high_risk_bet_percent
    ELSE config.normal_mode.low_risk_bet_percent

\* C9: the stake submitted is 0 when current_balance <= 0 or the selected
\* bet percentage is <= 0, and otherwise exactly current_balance * percent /
\* 100 (the stake is carried in 1/AmountScale of a unit).
C9_BetAmount ==
    pc = "direct_play_dice" =>
        /\ result.strategy = TagOf(session.bet_count + 1)
        /\ (session.current_balance <= 0 \/ SelectedBetPercent <= 0) =>
               request.amount = 0
        /\ (session.current_balance > 0 /\ SelectedBetPercent > 0) =>
               request.amount * 100
                   = session.current_balance * SelectedBetPercent * AmountScale

\* C9 witness: a stake that is a fraction of a unit.
C9_Witness ==
    /\ pc = "direct_play_dice"
    /\ request.amount > 0
    /\ request.amount % AmountScale # 0

\* C10: with alternate_direction the direction of each submitted wager is the
\* negation of last_direction_high, so consecutive completed wagers alternate;
\* without it, every wager uses the configured bet_high.
C10_Direction ==
    /\ pc = "play_dice" => result.bet_high = request.is_high
    /\ config.normal_mode.alternate_direction =>
           /\ pc = "play_dice" => request.is_high = ~session.last_direction_high
           /\ \A i \in 1..(Len(results) - 1) :
                  results[i].bet_high # results[i + 1].bet_high
    /\ ~config.normal_mode.alternate_direction =>
           /\ pc = "play_dice" => request.is_high = config.bet_high
           /\ \A i \in 1..Len(results) : results[i].bet_high = config.bet_high

\* C10 witness: three completed wagers, under, over, under.
C10_Witness ==
    /\ config.normal_mode.alternate_direction
    /\ Len(results) = 3
    /\ ~results[1].bet_high
    /\ results[2].bet_high
    /\ ~results[3].bet_high

\* C11: when the bet submission of a percentage-mode wager fails (play_dice
\* raises, or its response cannot be parsed), roll_normal_mode raises to its
\* caller with every field of the session as it was at the call, and no
\* withdrawal is attempted.
C11_FailedBetLeavesSession ==
    [][(pc = "direct_play_dice" /\ pc' = "raised") =>
           (session' = session /\ withdraw_request' = <<>>)]_vars

\* The session the update rule of the specification produces from session s,
\* the direction used and the outcome r of the wager: betCount incremented,
\* the delta added to totalProfit, currentBalance the reported main balance,
\* the win/loss counters and the streaks moved.
Applied(s, is_high, r) ==
    [ initial_balance |-> s.initial_balance,
      current_balance |-> IF r.balances = {} \/ Some(r.balances).main = <<>>
                          THEN 0
                          ELSE Some(r.balances).main[1],
      bet_count |-> s.bet_count + 1,
      win_count |-> s.win_count + (IF r.result THEN 1 ELSE 0),
      loss_count |-> s.loss_count + (IF r.result THEN 0 ELSE 1),
      total_profit |-> s.total_profit + (IF r.profit = <<>> THEN 0 ELSE r.profit[1]),
      last_direction_high |-> is_high,
      consecutive_losses |-> IF r.result THEN 0 ELSE s.consecutive_losses + 1,
      consecutive_wins |-> IF r.result THEN s.consecutive_wins + 1 ELSE 0 ]

\* C14: when roll_normal_mode returns from a wager whose withdrawal failed, the
\* session is exactly the session before the wager with the wager's outcome
\* applied, and the session loop goes on to its next stop-condition check.
C14_FailedWithdrawalKeepsUpdate ==
    [][(/\ pc = "play_dice"
        /\ Len(results') = Len(results) + 1
        /\ failed' = {"withdraw"}) =>
           /\ session' = Applied(session, request.is_high, response')
           /\ results'[Len(results')].withdrawal_triggered
           /\ ~results'[Len(results')].withdrawal_success
           /\ pc' = "loop"]_vars

\* C14 witness: the first wager won, its withdrawal was attempted and failed,
\* the session holds the outcome and is back at the head of the loop.
C14_Witness ==
    /\ pc = "loop"
    /\ failed = {"withdraw"}
    /\ withdraw_request # <<>>
    /\ Len(results) = 1
    /\ results[1].withdrawal_triggered
    /\ ~results[1].withdrawal_success
    /\ session.bet_count = 1
    /\ session.win_count = 1
    /\ session.consecutive_wins = 1
    /\ session.total_profit = 1
    /\ session.current_balance = 2

\* C12: when the bet submission of a faucet-mode wager fails, roll_faucet
\* raises to its caller and neither faucet_cashout nor withdraw (nor the
\* re-fetch of the balances) was called for that wager.
C12_FailedFaucetBetHasNoSideEffect ==
    (pc = "raised" /\ request.faucet) =>
        /\ cashout_request = <<>>
        /\ withdraw_request = <<>>
        /\ failed = {}
        /\ ~result.cashout_triggered
        /\ ~result.withdrawal_triggered

\* C12 witness: the bet of 2 units failed under a cashout threshold of 0 USD,
\* which any answered bet would have met.
C12_Witness ==
    /\ pc = "raised"
    /\ request.faucet
    /\ request.symbol = "btc"
    /\ request.amount = 2 * AmountScale
    /\ config.cashout_min_usd = 0
    /\ response = NoResponse
    /\ cashout_request = <<>>

\* The outcome fields of the RollResult are those of the bet response ("0" for
\* the balances when the response has no entry for the currency).
OutcomeIsOfResponse ==
    /\ result.win = response.result
    /\ result.profit = response.profit
    /\ result.new_main_balance =
           IF response.balances = {} THEN <<0>> ELSE Some(response.balances).main
    /\ result.new_faucet_balance =
           IF response.balances = {} THEN <<0>> ELSE Some(response.balances).faucet

\* C13: a cashout or withdrawal that fails does not abort the wager: the
\* wager operation (roll_faucet, roll_normal_mode) returns its RollResult, with
\* cashout_triggered and not cashout_success for a failed cashout, with
\* withdrawal_triggered and not withdrawal_success for a failed withdrawal, and
\* with the outcome fields of the bet response.
C13_SideEffectFailureIsRecorded ==
    /\ failed # {} => pc \in {"returned", "faucet_returned"}
    /\ pc \in {"returned", "faucet_returned"} =>
           /\ "cashout" \in failed =>
                  (result.cashout_triggered /\ ~result.cashout_success)
           /\ "withdraw" \in failed =>
                  (result.withdrawal_triggered /\ ~result.withdrawal_success)
           /\ OutcomeIsOfResponse

\* C13 witness: a winning faucet roll left 2 units, the cashout was called and
\* failed, and roll_faucet returned the record of it.
C13_Witness ==
    /\ pc = "faucet_returned"
    /\ failed = {"cashout"}
    /\ cashout_request = <<"btc">>
    /\ response.result
    /\ response.profit = <<1>>
    /\ result.win
    /\ result.profit = <<1>>
    /\ result.new_faucet_balance = <<2>>
    /\ result.cashout_triggered
    /\ ~result.cashout_success
    /\ ~result.withdrawal_triggered

\* The post-bet faucet balance the bet response reported (0 when it has no
\* entry for the currency or no number in it).
ReportedFaucetBalance ==
    IF response.balances = {} THEN 0 ELSE _to_decimal(Some(response.balances).faucet)

C16_CashoutOnlyAfterWin ==
    (pc = "faucet_returned" /\ cashout_request # <<>>) =>
        /\ result.win
        /\ result.usd_value >= config.cashout_min_usd

IsWagered(fc) == _to_decimal(fc.faucet_balance) > 0

\* The entries the pass has taken so far that have a positive balance.
WageredEntries == SelectSeq(SubSeq(faucet_currencies, 1, position), IsWagered)

CallFoundStale ==
    \/ price_call.before = {}
    \/ price_call.at - Some(price_call.before_time) >= config.price_refresh_sec

\* C22: a price-cache entry is stale exactly when now - its fetch time >=
\* price_refresh_sec.  A call of _get_usd_price that finds a non-stale entry
\* returns the cached price without contacting the price source and leaves
\* the entry alone; a call that finds a stale or missing entry contacts the
\* price source once and, on a positive price, returns it and stores it with
\* the time of the call.
C22_StaleExactlyAtRefreshInterval ==
    price_call.symbol # "" =>
        /\ ~CallFoundStale =>
               /\ price_call.contacted = 0
               /\ price_call.returned = Some(price_call.before)
               /\ price_cache[price_call.symbol] = price_call.before
               /\ price_cache_time[price_call.symbol] = price_call.before_time
        /\ CallFoundStale =>
               /\ price_call.contacted = 1
               /\ (price_call.fetched # {} /\ Some(price_call.fetched) > 0) =>
                      /\ price_call.returned = Some(price_call.fetched)
                      /\ price_cache[price_call.symbol] = price_call.fetched
                      /\ price_cache_time[price_call.symbol] = {price_call.at}

\* C22 witness: a price of 2 cached at second 0 is asked for again at second
\* 2 with price_refresh_sec = 2: the price source is contacted, quotes 3,
\* and 3 is returned and cached with time 2.
C22_Witness ==
    /\ config.price_refresh_sec = 2
    /\ price_call.symbol = "btc"
    /\ price_call.before = {2}
    /\ price_call.before_time = {0}
    /\ price_call.at = 2
    /\ price_call.contacted = 1
    /\ price_call.fetched = {3}
    /\ price_call.returned = 3
    /\ price_cache["btc"] = {3}
    /\ price_cache_time["btc"] = {2}

\* The last cached price of a currency, 0 when there is none.
CachedOrZero(symbol) == IF price_cache[symbol] = {} THEN 0 ELSE Some(price_cache[symbol])

\* C23: a refresh of the price that fails, or brings no positive price,
\* makes _get_usd_price return the cached price when there is one and 0
\* otherwise, leaving the cache as it was; and it stops no wager: the wager
\* whose bet returned is valued with that price and its record returned,
\* and the session goes on to its next wager.
C23_PriceFailureDegrades ==
    /\ \A cache \in {{}} \cup {{q} : q \in Quotes \ {0}}, fresh \in BOOLEAN,
          fetched \in {{}, {0}} :
           ~(cache # {} /\ fresh) =>
               _get_usd_price(cache, fresh, fetched)
                   = <<IF cache = {} THEN 0 ELSE Some(cache), cache>>
    /\ result.usd_value = _to_decimal(result.new_main_balance) * CachedOrZero("btc")
    /\ (price_cache["btc"] = {} /\ pc = "play_dice") =>
           Len(results) = session.bet_count

\* C23 witness: no price could be fetched since the session began; two
\* wagers returned all the same, valued at 0 USD, and their records are kept.
C23_Witness ==
    /\ pc \in {"loop", "done"}
    /\ price_cache["btc"] = {}
    /\ session.bet_count = 2
    /\ Len(results) = 2
    /\ response.balances # {}
    /\ result.new_main_balance = <<2>>
    /\ result.usd_value = 0

\* C24: a configuration with a negative bet percent is rejected when it is
\* constructed: with it no session is started and nothing of a wager (minimum
\* stake, stop conditions, bet) is evaluated.
C24_NegativeBetPercentIsRejected ==
    (\/ config.normal_mode.low_risk_bet_percent < 0
     \/ config.normal_mode.high_risk_bet_percent < 0) =>
        /\ pc = "start"
        /\ session = NormalModeSession(0, 0)
        /\ min_bet = {}
        /\ should_stop = {}
        /\ request = NoRequest

\* C25: the RollResult returned for a completed wager, in either mode, has
\* the stake, the direction and the win chance of the bet that was submitted.
C25_RecordIsOfSubmittedBet ==
    pc \in {"returned", "faucet_returned"} =>
        /\ result.bet_amount = request.amount
        /\ result.win_chance = request.chance
        /\ result.bet_high = request.is_high

\* C26: when run_normal_mode_session is called with max_bets set, a session
\* that ends neither by stop-loss, take-profit or a balance too low nor by a
\* failure has placed exactly max_bets wagers, whether max_bets is smaller
\* or larger than max_bets_per_session.
C26_MaxBetsArgumentOverrides ==
    (/\ pc = "done"
     /\ max_bets # {}
     /\ Some(max_bets) > 0
     /\ log_reason \in {"", "Max bets reached"}) =>
        /\ Len(results) = Some(max_bets)
        /\ session.bet_count = Some(max_bets)

\* C27: run_continuous with max_iterations = N performs at most N passes, for
\* every N >= 0, and returns; with max_iterations = None it never stops
\* because of the iteration count.
C27_AtMostMaxIterationsPasses ==
    /\ max_iterations # {} => iteration <= Some(max_iterations)
    /\ (pc = "continuous_returned" /\ log_reason = "Reached max iterations") =>
           /\ max_iterations # {}
           /\ iteration = Some(max_iterations)
    /\ max_iterations = {} => log_reason # "Reached max iterations"

C29_RequestsAreDelayApart ==
    /\ starts # <<>> => last_request_time = starts[Len(starts)].at
    /\ Len(starts) = 2 =>
           /\ starts[2].at - starts[1].at >= request_delay
           /\ starts[2].called - starts[1].at >= request_delay =>
                  starts[2].at = starts[2].called

\* C29 witness: with a delay of 2 seconds a request failed; the next one was
\* made a second later and started a second after that.
C29_Witness ==
    /\ request_delay = 2
    /\ Len(starts) = 2
    /\ starts[1].failed
    /\ starts[2].called = starts[1].at + 1
    /\ starts[2].at = starts[1].at + 2

\* Two sessions agree in what the bet is decided from.
SameDirectiveInputs(s, t) ==
    /\ s.bet_count = t.bet_count
    /\ s.current_balance = t.current_balance
    /\ s.last_direction_high = t.last_direction_high

\* C30: deciding the bet of roll_normal_mode changes no field of the session,
\* and the stake, win chance, direction and strategy that are sent and
\* recorded are those of every session with the same bet count, current
\* balance and last direction under the same configuration.
C30_DirectiveIsPureFunction ==
    /\ [](pc = "direct_play_dice" =>
             \A t \in CallerSessions :
                 SameDirectiveInputs(session, t) =>
                     /\ request.amount = BetDirective(t).bet_amount
                     /\ request.chance = BetDirective(t).win_chance
                     /\ request.is_high = BetDirective(t).bet_high
                     /\ result.bet_amount = BetDirective(t).bet_amount
                     /\ result.win_chance = BetDirective(t).win_chance
                     /\ result.bet_high = BetDirective(t).bet_high
                     /\ result.strategy = BetDirective(t).strategy)
    /\ [][pc = "call" /\ pc' = "direct_play_dice" => session' = session]_vars

\* C30 witness: a high-risk stake was decided, downwards, for a session in
\* loss, and a session in profit has the same bet count, balance and last
\* direction.
C30_Witness ==
    /\ pc = "direct_play_dice"
    /\ result.strategy = HIGH_RISK
    /\ request.amount > 0
    /\ ~request.is_high
    /\ session.current_balance < session.initial_balance
    /\ \E t \in CallerSessions :
           /\ SameDirectiveInputs(session, t)
           /\ t.current_balance > t.initial_balance

\* C31: with alternate_direction off, a completed wager of the session leaves
\* session.last_direction_high as it was before the wager, whatever the
\* configured bet_high.
C31_NoAlternationStateChange ==
    [][(/\ pc = "play_dice"
        /\ pc' = "loop"
        /\ ~config.normal_mode.alternate_direction)
       => session'.last_direction_high = session.last_direction_high]_vars

\* C32: a wager of run_normal_mode_session whose submission fails is not
\* tried again: the session ends there with "Session error", nothing is
\* submitted afterwards, the exception does not reach the caller (only the
\* balance fetch before the loop can raise to it), and the records returned
\* are those of the wagers completed before.
C32_FailedWagerIsNotRetried ==
    /\ []((pc = "done" /\ log_reason = "Session error" /\ response.profit # Signalling)
            => Len(results) = session.bet_count)
    /\ [][/\ (pc = "play_dice" /\ results' = results) =>
                 /\ pc' = "done"
                 /\ log_reason' = "Session error"
                 /\ request' = request
          /\ pc = "done" => FALSE
          /\ pc' = "raised" => (pc = "start" /\ results = <<>> /\ request = NoRequest)]_vars

\* C32 witness: the second wager of a session failed and the record of the
\* first is what the session returns.
C32_Witness ==
    /\ pc = "done"
    /\ log_reason = "Session error"
    /\ response.profit # Signalling
    /\ Len(results) = 1
    /\ session.bet_count = 1

\* The most wagers a session may submit: the smaller of its max_bets limit
\* and max_bets_per_session.
SubmittedWagers == session.bet_count + (IF pc = "play_dice" THEN 1 ELSE 0)

WagerBound ==
    IF max_bets = {} \/ Some(max_bets) = 0
    THEN config.normal_mode.max_bets_per_session
    ELSE Min(Some(max_bets), config.normal_mode.max_bets_per_session)

\* C33: run_normal_mode_session terminates whatever the wagers' outcomes are,
\* and it has then submitted at most min(max_bets limit,
\* max_bets_per_session) wagers.
C33_SessionTerminates ==
    /\ <>(pc \in {"done", "raised"})
    /\ [](SubmittedWagers <= WagerBound)

\* C33 witness: a session with a max_bets argument below
\* max_bets_per_session ended by that limit after two completed wagers.
C33_Witness ==
    /\ pc = "done"
    /\ max_bets = {2}
    /\ config.normal_mode.max_bets_per_session > 2
    /\ session.bet_count = 2
    /\ Len(results) = 2

\* C34: after a successful withdrawal of a session's wager the session's
\* current_balance is still the main balance the bet reported, which is the
\* amount that was withdrawn; the next stake is computed from it and is
\* positive.
C34_WithdrawalLeavesSessionBalance ==
    /\ []((pc = "loop" /\ result.withdrawal_success) =>
             /\ withdraw_request # <<>>
             /\ withdraw_request[1].amount = result.new_main_balance
             /\ session.current_balance = _to_decimal(result.new_main_balance)
             /\ session.current_balance > 0)
    /\ [][(pc = "loop" /\ result.withdrawal_success /\ pc' = "play_dice") =>
             /\ request'.amount =
                    _calculate_bet_amount(_to_decimal(result.new_main_balance),
                                          SelectedBetPercent')
             /\ request'.amount > 0]_vars

\* C34 witness: the whole main balance was withdrawn and the session has
\* submitted its next wager with a positive stake.
C34_Witness ==
    /\ pc = "play_dice"
    /\ Len(results) = 1
    /\ results[1].withdrawal_success
    /\ withdraw_request # <<>>
    /\ withdraw_request[1].amount = <<session.current_balance>>
    /\ request.amount > 0

\* C35: when the response of a completed wager of the session has no balance
\* entry for the currency, the wager is counted and the session's
\* current_balance is 0; with a stop-loss of at most 100 percent the session
\* then ends without another wager, at its bet limit or by the stop-loss.
C35_MissingBalanceEndsSession ==
    /\ []((pc = "loop" /\ results # <<>> /\ response.balances = {}) =>
             /\ session.current_balance = 0
             /\ session.initial_balance > 0
             /\ session.bet_count = Len(results))
    /\ [][(/\ pc = "loop"
           /\ results # <<>>
           /\ response.balances = {}
           /\ config.normal_mode.stop_loss_percent <= 100) =>
             /\ pc' = "done"
             /\ request' = request
             /\ \/ ~(session.bet_count < max_bets_limit)
                \/ log_reason' \in {"Max bets reached", "Stop-loss triggered"}]_vars

\* C35 witness: the first wager's response had no entry for the currency and
\* the stop-loss ended a session that had bets left.
C35_Witness ==
    /\ pc = "done"
    /\ log_reason = "Stop-loss triggered"
    /\ Len(results) = 1
    /\ response.balances = {}
    /\ session.bet_count = 1
    /\ session.current_balance = 0
    /\ session.bet_count < config.normal_mode.max_bets_per_session

\* The entry of a currency is missing or no longer fresh.
IsStale(symbol) == ~IsFresh(price_cache[symbol], CacheTime(symbol), now)

\* The last call contacted the price source and got an error or a price <= 0.
RefreshFailed ==
    /\ price_call.contacted = 1
    /\ (price_call.fetched = {} \/ Some(price_call.fetched) <= 0)

\* C36: every cached price is positive and has the time it was fetched at; a
\* refresh that fails leaves the price and its time as they were; and an
\* entry that is stale stays stale until a refresh of it succeeds, every call
\* for it contacting the price source.
C36_PriceCacheInvariant ==
    /\ [](\A c \in Currencies :
             price_cache[c] # {} =>
                 /\ Some(price_cache[c]) > 0
                 /\ price_cache_time[c] # {}
                 /\ Some(price_cache_time[c]) <= now)
    /\ [](RefreshFailed =>
             /\ price_cache[price_call.symbol] = price_call.before
             /\ price_cache_time[price_call.symbol] = price_call.before_time
             /\ IsStale(price_call.symbol))
    /\ [][\A c \in PricedCurrencies :
             IsStale(c) =>
                 /\ (price_call' # price_call /\ price_call'.symbol = c) =>
                        price_call'.contacted = 1
                 /\ (price_call' = price_call \/ price_call'.symbol # c \/ RefreshFailed') =>
                        /\ IsStale(c)'
                        /\ price_cache'[c] = price_cache[c]
                        /\ price_cache_time'[c] = price_cache_time[c]]_vars

\* C36 witness: the refresh of a cached, stale price failed some time after
\* the price was fetched.
C36_Witness ==
    /\ RefreshFailed
    /\ price_call.before # {}
    /\ price_call.at > Some(price_call.before_time)
    /\ price_cache[price_call.symbol] = price_call.before
    /\ price_cache_time[price_call.symbol] = price_call.before_time

\* C37: in every RollResult that roll_faucet or roll_normal_mode returns a
\* successful cashout was triggered and a successful withdrawal was
\* triggered; roll_faucet triggers a withdrawal only after a successful
\* cashout; and when the balance fetch after a successful cashout fails the
\* record keeps cashout_success and has no withdrawal.
C37_RecordFlagsAreConsistent ==
    pc \in {"returned", "faucet_returned"} =>
        /\ result.cashout_success => result.cashout_triggered
        /\ result.withdrawal_success => result.withdrawal_triggered
        /\ pc = "faucet_returned" =>
               /\ result.withdrawal_triggered => result.cashout_success
               /\ "user_info" \in failed =>
                      /\ result.cashout_success
                      /\ ~result.withdrawal_triggered
                      /\ withdraw_request = <<>>
        /\ pc = "returned" => ~result.cashout_triggered

\* C37 witness: roll_faucet returned after its cashout succeeded and the
\* balance fetch that follows it failed.
C37_Witness ==
    /\ pc = "faucet_returned"
    /\ "user_info" \in failed
    /\ result.cashout_triggered
    /\ result.cashout_success
    /\ ~result.withdrawal_triggered

\* C38: a completed wager of the session calls withdraw exactly when
\* auto_withdraw is set, the withdrawal address is not empty and the reported
\* main balance is worth at least withdrawal_min_usd; it calls it once, for
\* the whole main balance that the bet reported.
C38_SessionWithdrawalIffWorth ==
    [][(pc = "play_dice" /\ pc' = "loop") =>
          /\ result'.usd_value \in
                 { _calculate_usd_value(_to_decimal(result'.new_main_balance), p[1]) :
                       p \in PriceLookups(price_cache["btc"]) }
          /\ withdraw_request' # <<>> <=>
                 /\ config.auto_withdraw
                 /\ config.withdrawal_address # ""
                 /\ result'.usd_value >= config.withdrawal_min_usd
          /\ result'.withdrawal_triggered <=> withdraw_request' # <<>>
          /\ Len(withdraw_request') <= 1
          /\ withdraw_request' # <<>> =>
                 /\ withdraw_request'[1].amount = result'.new_main_balance
                 /\ withdraw_request'[1].address = config.withdrawal_address
                 /\ withdraw_request'[1].symbol = request.symbol]_vars

\* C38 witness: a wager reported a main balance worth the threshold and the
\* whole of it was withdrawn; the withdrawal failed.
C38_Witness ==
    /\ pc = "loop"
    /\ results # <<>>
    /\ result.usd_value = config.withdrawal_min_usd
    /\ withdraw_request # <<>>
    /\ withdraw_request[1].amount = result.new_main_balance
    /\ "withdraw" \in failed

\* C39: every stake the session submits is positive, with either strategy:
\* the stake is at least the min_bet that was tested before the wager, which
\* is positive; and with both bet percentages at most 100 the stake is at
\* most the session's current balance.
C39_StakeIsPositive ==
    pc = "play_dice" =>
        /\ min_bet # {}
        /\ Some(min_bet) > 0
        /\ request.amount >= Some(min_bet)
        /\ request.amount > 0
        /\ request.amount = result.bet_amount
        /\ (/\ config.normal_mode.low_risk_bet_percent <= 100
            /\ config.normal_mode.high_risk_bet_percent <= 100) =>
               request.amount <= session.current_balance * AmountScale

\* C39 witness: a high-risk wager whose percentage is the larger of the two
\* was submitted with a stake above the min_bet that was tested.
C39_Witness ==
    /\ pc = "play_dice"
    /\ result.strategy = HIGH_RISK
    /\ config.normal_mode.high_risk_bet_percent > config.normal_mode.low_risk_bet_percent
    /\ request.amount > Some(min_bet)
    /\ request.amount <= session.current_balance * AmountScale

\* C40: the session starts with current_balance = initial_balance = the main
\* balance that was fetched; no wager changes initial_balance; and on a
\* fetched balance <= 0 (also when the currency has no entry) no session is
\* started and nothing is wagered.
C40_SessionStartsFromFetchedBalance ==
    /\ [](main_balance # {} =>
             IF Some(main_balance) <= 0
             THEN /\ pc = "done"
                  /\ session = NormalModeSession(0, 0)
                  /\ request = NoRequest
                  /\ results = <<>>
             ELSE /\ session.initial_balance = Some(main_balance)
                  /\ pc \in {"loop", "play_dice", "done"})
    /\ [][/\ (pc = "start" /\ pc' = "loop") =>
                 session' = NormalModeSession(Some(main_balance'), Some(main_balance'))
          /\ pc # "start" =>
                 /\ session'.initial_balance = session.initial_balance
                 /\ main_balance' = main_balance]_vars

\* C40 witness: after two wagers the session's balance has moved and its
\* initial_balance is still the balance that was fetched.
C40_Witness ==
    /\ pc = "done"
    /\ Len(results) = 2
    /\ main_balance = {1}
    /\ session.initial_balance = 1
    /\ session.current_balance = 2

====
